---------------------------- MODULE Spec2Model ----------------------------
(***************************************************************************)
(* AIS-Viewer server pipeline: the upstream ingest client                  *)
(* (services/aisstream-client.ts), the Redis store driven by the Lua       *)
(* script UPDATE_VESSEL_SCRIPT (scripts/redis-scripts.ts), and the         *)
(* downstream VesselWebSocketServer (services/websocket-server.ts).        *)
(*                                                                         *)
(* Conventions                                                             *)
(*   - latitudes and longitudes are integers in hundredths of a degree;    *)
(*   - a tile key "z/x/y" is the triple <<z, x, y>>;                       *)
(*   - a JavaScript value and a Redis string are records [t, v];           *)
(*   - all Redis commands travel over one connection: redisQ is the FIFO   *)
(*     of commands sent and not yet answered, and an entry carries the     *)
(*     continuation of the coroutine that awaits its reply;                *)
(*   - a key's TTL is the number of whole seconds it has left.             *)
(***************************************************************************)
EXTENDS Integers, Sequences, FiniteSets, TLC

VARIABLES
  vesselHash,        \* Redis: cur:vessel:<mmsi> -> hash (EmptyHash: no key)
  vesselExp,         \* Redis: seconds left of cur:vessel:<mmsi> (0: no key)
  tileSet,           \* Redis: cur:tile:<tile> -> set of mmsi ({}: no key)
  tileExp,           \* Redis: seconds left of cur:tile:<tile> (0: no key)
  redisQ,            \* commands sent to Redis and not yet answered (FIFO)
  ingestDirty,       \* AISStreamClient.dirtyTiles (insertion order)
  clients,           \* VesselWebSocketServer.clients: registered client ids
  subscribedTiles,   \* WSClient.subscribedTiles of every client object
  isAlive,           \* WSClient.isAlive
  sock,              \* WSClient.ws: none / open / closing / terminated / closed
  tileSubscriptions, \* VesselWebSocketServer.tileSubscriptions (a Map)
  wsDirty,           \* VesselWebSocketServer.dirtyTiles (insertion order)
  wsRunning,         \* the server's intervals are set (start() .. stop())
  outbox,            \* history: the messages sent to each client, in order
  tickNo,            \* history: number of firings of the dispatcher's interval
  touch,             \* history: per tile, number of script runs that touched it
  lastPut,           \* history: the last script run (before, after, result)
  owed,              \* history: per client and tile, what the first update owes
  due,               \* history: per client, the writes its next flush must show
  age,               \* history: per mmsi, seconds since its last script run
  dropped,           \* history: per client, -1 or the heartbeats since its peer went silent
  upstream,          \* AISStreamClient: its connection fields and its socket
  sync,              \* BatchSyncService: its fields, its upserts in flight, the table
  server,            \* Server: where start() and shutdown are, what was started and stopped
  nReports,          \* number of provider messages handled
  nClientMsgs,       \* number of client connections and messages handled
  nSeconds,          \* seconds elapsed
  lost,              \* history: the (tick, tile) pairs a failed flush left undone
  mobile             \* the mobile app's WebSocketService and what its socket was sent

vars == << vesselHash, vesselExp, tileSet, tileExp, redisQ, ingestDirty,
           clients, subscribedTiles, isAlive, sock, tileSubscriptions,
           wsDirty, wsRunning, outbox, tickNo, touch, lastPut, owed, due,
           age, dropped, upstream, sync, server, nReports, nClientMsgs, nSeconds,
           lost, mobile >>

storeVars == << vesselHash, vesselExp, tileSet, tileExp, age >>
sessionVars == << clients, subscribedTiles, isAlive, sock, tileSubscriptions >>
servingVarsButSync == << storeVars, sessionVars, redisQ, ingestDirty, wsDirty, wsRunning, outbox, tickNo, touch, lastPut, owed, due, dropped, upstream, nReports, nClientMsgs, nSeconds, server, lost, mobile >>
servingVars == << storeVars, sessionVars, redisQ, ingestDirty, wsDirty, wsRunning, outbox, tickNo, touch, lastPut, owed, due, dropped, sync, nReports, nClientMsgs, nSeconds, server, lost, mobile >>

-----------------------------------------------------------------------------
(* Values *)

\* JavaScript values: a number, null, undefined or NaN
Num(n)  == [t |-> "number", v |-> n]
JsNull  == [t |-> "null", v |-> 0]
JsUndef == [t |-> "undefined", v |-> 0]
JsNaN   == [t |-> "NaN", v |-> 0]

\* Redis strings: the decimal digits of a number, the text "null", or no
\* such field (what a hash that does not exist answers)
Digits(n) == [t |-> "digits", v |-> n]
TextNull  == [t |-> "text-null", v |-> 0]
Absent    == [t |-> "absent", v |-> 0]

\* Lua nil / JSON null in the place of a tile key
NoTile == << >>

\* config.tileZoom
tileZoom == 12

\* the TTL in seconds that updateVesselPosition passes to the script as
\* ARGV[9] (config.vesselRedisTtlSeconds; the config module at hand names
\* the setting vesselTtlSeconds, VESSEL_TTL_SECONDS, 120 by default),
\* scaled down to a few seconds
VesselTtl == 2

\* the wire value of TrueHeading that means "not available" (the mobile
\* client's VesselMarker treats a heading of 511 so)
HeadingNA == 511

MMSIs == {111, 222}
Clients == {"c1", "c2"}

-----------------------------------------------------------------------------
(* Tile math: config/index.ts *)

Max(a, b) == IF a >= b THEN a ELSE b
Min(a, b) == IF a <= b THEN a ELSE b

\* JavaScript's %: the result has the sign of the dividend
JsRem(a, b) == IF a >= 0 THEN a % b ELSE 0 - ((0 - a) % b)

\* 2^zoom
Pow2(z) == [k \in 0..12 |-> CASE k = 0 -> 1 [] k = 1 -> 2 [] k = 2 -> 4
              [] k = 3 -> 8 [] k = 4 -> 16 [] k = 5 -> 32 [] k = 6 -> 64
              [] k = 7 -> 128 [] k = 8 -> 256 [] k = 9 -> 512
              [] k = 10 -> 1024 [] k = 11 -> 2048 [] OTHER -> 4096][z]

\* a faulty check that accepts every pair of numbers
isValidCoordinates_NoRange(lat, lon) == lat \in Int /\ lon \in Int

isValidCoordinates(lat, lon) ==
  /\ lat \in Int
  /\ lon \in Int
  /\ lat >= -9000
  /\ lat <= 9000
  /\ lon >= -18000
  /\ lon <= 18000

\* (1 - ln(tan(latRad) + 1/cos(latRad)) / PI) / 2 in units of 10^-5, for the
\* latitudes the model samples (hundredths of a degree, already clamped to
\* +-85.0511287798066).  At the clamp the double is -5.6e-16 (north) and
\* 1 - 2e-16 (south); -1 and 99999 keep the floor of the product the same.
MercatorFrac(clampedLat) ==
  CASE clampedLat = 0     -> 50000
    [] clampedLat = 2240  -> 43613
    [] clampedLat = 2241  -> 43610
    [] clampedLat = 8505  -> 0 - 1
    [] clampedLat = -8505 -> 99999

\* Math.max(-85.0511287798066, Math.min(85.0511287798066, lat)); the grid of
\* hundredths holds no point between 85.05 and the limit, so the limit is 8505
clampLat(lat) == Max(-8505, Min(8505, lat))

latLonToTileKey(lat, lon, zoom) ==
  LET clampedLat == clampLat(lat)
      lonNorm == JsRem(JsRem(lon + 18000, 36000) + 36000, 36000) - 18000
      n == Pow2(zoom)
      x == ((lonNorm + 18000) * n) \div 36000
      y == (MercatorFrac(clampedLat) * n) \div 100000
  IN  << zoom, x, y >>

-----------------------------------------------------------------------------
(* Provider messages and AISStreamClient.parsePositionReport *)

\* An AISPositionReport: pr says whether Message.PositionReport is there;
\* every other field is a number or undefined.
WireMessage(pr, UserID, Latitude, Longitude, Cog, Sog, TrueHeading, metaMMSI, metaLat, metaLon, time_utc) ==
  [pr |-> pr, UserID |-> UserID, Latitude |-> Latitude,
   Longitude |-> Longitude, Cog |-> Cog, Sog |-> Sog,
   TrueHeading |-> TrueHeading, metaMMSI |-> metaMMSI, metaLat |-> metaLat,
   metaLon |-> metaLon, time_utc |-> time_utc]

\* a || b on numbers: b when a is undefined or 0
JsOr(a, b) == IF a.t = "undefined" \/ (a.t = "number" /\ a.v = 0) THEN b ELSE a

\* a ?? b
JsNullish(a, b) == IF a.t \in {"undefined", "null"} THEN b ELSE a

\* x !== undefined ? x : null
UndefToNull(x) == IF x.t # "undefined" THEN x ELSE JsNull

\* the VesselPosition parsePositionReport returns, or NoVessel for null
NoVessel == [ok |-> FALSE]

\* lat === undefined || lon === undefined
MissingPosition(lat, lon) == lat.t = "undefined" \/ lon.t = "undefined"

\* typeof x === "number": what isValidCoordinates asks of both arguments
\* before it compares them
IsNumber(x) == x.t = "number"

parsePositionReport(message, now) ==
  LET mmsi == JsOr(message.UserID, message.metaMMSI)
      lat  == JsNullish(message.Latitude, message.metaLat)
      lon  == JsNullish(message.Longitude, message.metaLon)
  IN  IF ~message.pr THEN NoVessel
      ELSE IF mmsi.t = "undefined" \/ mmsi.v = 0 THEN NoVessel
      ELSE IF MissingPosition(lat, lon) THEN NoVessel
      ELSE IF ~(IsNumber(lat) /\ IsNumber(lon) /\ isValidCoordinates(lat.v, lon.v)) THEN NoVessel
      ELSE [ok |-> TRUE,
            mmsi |-> mmsi.v,
            lat |-> lat.v,
            lon |-> lon.v,
            cog |-> UndefToNull(message.Cog),
            sog |-> UndefToNull(message.Sog),
            heading |-> UndefToNull(message.TrueHeading),
            timestamp |-> JsOr(message.time_utc, Num(now)).v,
            tile |-> latLonToTileKey(lat.v, lon.v, tileZoom)]

-----------------------------------------------------------------------------
(* The Redis store and UPDATE_VESSEL_SCRIPT: scripts/redis-scripts.ts *)

\* The tile keys the sampled positions fall in
Positions == { <<0, 0>>, <<2240, 11411>>, <<2241, 11420>> }
TileKeys == { latLonToTileKey(p[1], p[2], tileZoom) : p \in Positions }

\* HGETALL of a key that does not exist: an object without fields
EmptyHash ==
  [mmsi |-> Absent, lat |-> Absent, lon |-> Absent, cog |-> Absent,
   sog |-> Absent, heading |-> Absent, timestamp |-> Absent, tile |-> NoTile]

\* x !== null ? x.toString() : "null"
ToRedisString(x) == IF x.t = "null" THEN TextNull ELSE Digits(x.v)

\* ARGV[1..8] as updateVesselPosition passes them, stored by HSET
ScriptArgs(vessel) ==
  [mmsi |-> Digits(vessel.mmsi),
   lat |-> Digits(vessel.lat),
   lon |-> Digits(vessel.lon),
   cog |-> ToRedisString(vessel.cog),
   sog |-> ToRedisString(vessel.sog),
   heading |-> ToRedisString(vessel.heading),
   timestamp |-> Digits(vessel.timestamp),
   tile |-> vessel.tile]

\* a faulty script that does not read the old tile
ScriptOldTile_Nil(hash, mmsi) == NoTile

\* local oldTile = redis.call('HGET', vesselKey, 'tile')
ScriptOldTile(hash, mmsi) == hash[mmsi].tile

\* a faulty script that leaves the old tile's set as it is
ScriptRemoveOld_Keep(sets, oldTile, newTile, mmsi) == sets

\* if oldTile and oldTile ~= newTile then SREM (and DEL when empty) end
ScriptRemoveOld(sets, oldTile, newTile, mmsi) ==
  IF oldTile # NoTile /\ oldTile # newTile
  THEN [sets EXCEPT ![oldTile] = @ \ {mmsi}]
  ELSE sets

\* redis.call('SADD', newTileKey, mmsi)
ScriptAddNew(sets, newTile, mmsi) == [sets EXCEPT ![newTile] = @ \cup {mmsi}]

\* a set key that became empty is gone, and its TTL with it;
\* redis.call('EXPIRE', newTileKey, ttl)
ScriptTileExp(exp, sets, newTile, ttl) ==
  [t \in DOMAIN exp |->
     IF t = newTile THEN ttl ELSE IF sets[t] = {} THEN 0 ELSE exp[t]]

\* The whole script, run atomically by Redis; its reply is lastPut'
UPDATE_VESSEL_SCRIPT(vessel, ttl) ==
  LET mmsi    == vessel.mmsi
      newTile == vessel.tile
      oldTile == ScriptOldTile(vesselHash, mmsi)
      removed == ScriptRemoveOld(tileSet, oldTile, newTile, mmsi)
      added   == ScriptAddNew(removed, newTile, mmsi)
  IN  /\ vesselHash' = [vesselHash EXCEPT ![mmsi] = ScriptArgs(vessel)]
      /\ vesselExp' = [vesselExp EXCEPT ![mmsi] = ttl]
      /\ tileSet' = added
      /\ tileExp' = ScriptTileExp(tileExp, added, newTile, ttl)
      /\ lastPut' = [mmsi |-> mmsi, oldTile |-> oldTile, newTile |-> newTile]
      /\ age' = [age EXCEPT ![mmsi] = 0]
      /\ touch' = [t \in DOMAIN touch |->
                     IF t = newTile \/ t = oldTile THEN touch[t] + 1
                     ELSE touch[t]]

\* One second passes: every key loses a second, and a key with none left
\* is gone (Redis answers an expired key as missing)
ExpireKeys ==
  /\ vesselExp' = [m \in MMSIs |-> Max(vesselExp[m] - 1, 0)]
  /\ vesselHash' = [m \in MMSIs |->
                      IF vesselExp[m] <= 1 THEN EmptyHash ELSE vesselHash[m]]
  /\ tileExp' = [t \in TileKeys |-> Max(tileExp[t] - 1, 0)]
  /\ tileSet' = [t \in TileKeys |-> IF tileExp[t] <= 1 THEN {} ELSE tileSet[t]]
  /\ age' = [m \in MMSIs |-> Min(age[m] + 1, VesselTtl)]

-----------------------------------------------------------------------------
(* Helpers of the WebSocket server: services/websocket-server.ts *)

Elems(seq) == { seq[i] : i \in DOMAIN seq }

\* Set.add on a JavaScript Set, which iterates in insertion order
SetAdd(seq, x) == IF x \in Elems(seq) THEN seq ELSE Append(seq, x)

RECURSIVE SetAddAll(_, _)
SetAddAll(seq, xs) ==
  IF xs = << >> THEN seq ELSE SetAddAll(SetAdd(seq, Head(xs)), Tail(xs))

\* no vessels
EmptyList == [m \in {} |-> EmptyHash]

\* A message to a client.  src, tick, base and seen are history: what built
\* the message (snapshot or flush), the flush's number, and touch[tile] when
\* the flush started and when the tile set was read.
Msg(type, tiles, tile, vessels, src, tick, base, seen) ==
  [type |-> type, tiles |-> tiles, tile |-> tile, vessels |-> vessels,
   src |-> src, tick |-> tick, base |-> base, seen |-> seen]

\* an acknowledgement; `serial` numbers the client message it answers
Ack(type, tiles, serial) ==
  Msg(type, tiles, NoTile, EmptyList, "-", serial, 0, 0)

\* parseInt / parseFloat of a hash field
ParseNumber(f) == IF f.t = "digits" THEN Num(f.v) ELSE JsNaN

\* f !== "null" ? parseFloat(f) : null
ParseNullable(f) == IF f.t # "text-null" THEN ParseNumber(f) ELSE JsNull

\* the VesselPosition pushed for one HGETALL result
ParseHash(data) ==
  [mmsi |-> ParseNumber(data.mmsi),
   lat |-> ParseNumber(data.lat),
   lon |-> ParseNumber(data.lon),
   cog |-> ParseNullable(data.cog),
   sog |-> ParseNullable(data.sog),
   heading |-> ParseNullable(data.heading),
   timestamp |-> data.timestamp,
   tile |-> data.tile]

\* the vessels array built from the pipeline's results, one per mmsi asked
\* (the results are objects, so every one is pushed)
BuildVessels(mmsiList) == [m \in mmsiList |-> ParseHash(vesselHash[m])]

\* the MMSIs a vessels array really lists
ListedMMSIs(vessels) ==
  { vessels[m].mmsi.v : m \in { k \in DOMAIN vessels : vessels[k].mmsi.t = "number" } }

\* sendToClient: only a socket that is OPEN is written to
sendToClient(box, c, message) ==
  IF sock[c] = "open" THEN [box EXCEPT ![c] = Append(@, message)] ELSE box

RECURSIVE SendAll(_, _, _)
SendAll(box, cs, message) ==
  IF cs = {} THEN box
  ELSE LET c == CHOOSE x \in cs : TRUE
       IN  SendAll(sendToClient(box, c, message), cs \ {c}, message)

\* the index entries of the tiles that hold `c`
IndexOf(subs, c) == { t \in DOMAIN subs : c \in subs[t] }

HasSubscribers(subs, tile) == tile \in DOMAIN subs /\ subs[tile] # {}

\* Map.delete of a tile's entry
MapDelete(subs, tile) == [t \in (DOMAIN subs) \ {tile} |-> subs[t]]

\* a faulty removal that keeps the entry when its last subscriber leaves
RemoveSubscriber_NoEvict(subs, tile, c) ==
  IF tile \notin DOMAIN subs THEN subs ELSE [subs EXCEPT ![tile] = @ \ {c}]

\* tileSubscriptions after `c` is taken out of the entry of `tile`
\* (handleUnsubscribe and handleDisconnect share the code)
RemoveSubscriber(subs, tile, c) ==
  IF tile \notin DOMAIN subs THEN subs
  ELSE IF subs[tile] \ {c} = {} THEN MapDelete(subs, tile)
  ELSE [subs EXCEPT ![tile] = @ \ {c}]

RECURSIVE RemoveFromTiles(_, _, _)
RemoveFromTiles(subs, tiles, c) ==
  IF tiles = << >> THEN subs
  ELSE RemoveFromTiles(RemoveSubscriber(subs, Head(tiles), c), Tail(tiles), c)

\* a faulty addition that sets a new Set for the tile every time
AddSubscriber_Fresh(subs, tile, c) ==
  [t \in (DOMAIN subs) \cup {tile} |-> IF t = tile THEN {c} ELSE subs[t]]

\* tileSubscriptions after `c` is added to the entry of `tile`
AddSubscriber(subs, tile, c) ==
  IF tile \in DOMAIN subs THEN [subs EXCEPT ![tile] = @ \cup {c}]
  ELSE [t \in (DOMAIN subs) \cup {tile} |-> IF t = tile THEN {c} ELSE subs[t]]

RECURSIVE AddToTiles(_, _, _)
AddToTiles(subs, tiles, c) ==
  IF tiles = << >> THEN subs
  ELSE AddToTiles(AddSubscriber(subs, Head(tiles), c), Tail(tiles), c)

\* a set in some order (forEach over a Set whose order does not matter)
RECURSIVE SetToSeq(_)
SetToSeq(S) ==
  IF S = {} THEN << >>
  ELSE LET x == CHOOSE y \in S : TRUE IN << x >> \o SetToSeq(S \ {x})

-----------------------------------------------------------------------------
(* Coroutines awaiting Redis.  A coroutine has one command outstanding; the *)
(* queue entry of the command carries what the coroutine goes on with:     *)
(* rest is the tiles still to do (the current one first), live says that   *)
(* the Set of subscribers the flush took from the Map for the current tile *)
(* is still the Map's entry; base and seen are history, touch when the     *)
(* coroutine started and touch[tile] when SMEMBERS answered.               *)

Co(kind, client, tick, rest, live, base, seen) ==
  [kind |-> kind, client |-> client, tick |-> tick, rest |-> rest,
   live |-> live, base |-> base, seen |-> seen]

EvalCmd(vessel) == [op |-> "evalsha", vessel |-> vessel]
SmembersCmd(co) == [op |-> "smembers", co |-> co]
HgetallCmd(co, mmsiList) == [op |-> "hgetall", co |-> co, mmsis |-> mmsiList]

\* a faulty loop that ends at the first tile without subscribers
FlushLoop_HeadOnly(subs, rest, tick, base) ==
  IF rest = << >> \/ ~HasSubscribers(subs, Head(rest)) THEN << >>
  ELSE << SmembersCmd(Co("flush", "-", tick, rest, TRUE, base, 0)) >>

\* flushDirtyTiles, the head of its loop: tiles without subscribers are
\* skipped; the first tile that has some is read with SMEMBERS
RECURSIVE FlushLoop(_, _, _, _)
FlushLoop(subs, rest, tick, base) ==
  IF rest = << >> THEN << >>
  ELSE IF ~HasSubscribers(subs, Head(rest))
       THEN FlushLoop(subs, Tail(rest), tick, base)
  ELSE << SmembersCmd(Co("flush", "-", tick, rest, TRUE, base, 0)) >>

\* sendInitialTileData, the head of its loop: every tile is read
\* (serial: history, the number of the subscribe that started it)
SnapshotLoop(c, rest, serial, base) ==
  IF rest = << >> THEN << >>
  ELSE << SmembersCmd(Co("snapshot", c, serial, rest, TRUE, base, 0)) >>

\* a faulty choice that sends to every registered client
Recipients_All(co) == clients

\* what the coroutine sends its vessels to: the flush, the clients of the
\* Set it holds that are still registered; the snapshot, its client
Recipients(co) ==
  IF co.kind = "snapshot" THEN {co.client}
  ELSE IF co.live THEN tileSubscriptions[Head(co.rest)] \cap clients
  ELSE {}

\* a faulty flush that skips a tile whose set is empty
EmptyTileUpdate_Skip(box, co, message) == box

\* mmsiList.length === 0: the flush sends its subscribers the empty update,
\* the snapshot goes on to the next tile
EmptyTileUpdate(box, co, message) ==
  IF co.kind = "flush" THEN SendAll(box, Recipients(co), message) ELSE box

\* the next command of the coroutine once the current tile is done
NextTile(co) ==
  IF co.kind = "snapshot"
  THEN SnapshotLoop(co.client, Tail(co.rest), co.tick, co.base)
  ELSE FlushLoop(tileSubscriptions, Tail(co.rest), co.tick, co.base)

\* the flushes in flight whose Set left the Map hold a Set of their own
MarkStale(q, evicted) ==
  [i \in DOMAIN q |->
     IF q[i].op # "evalsha" /\ q[i].co.kind = "flush" /\ Head(q[i].co.rest) \in evicted
     THEN [q[i] EXCEPT !.co.live = FALSE]
     ELSE q[i]]

-----------------------------------------------------------------------------
(* History of what the first update after a subscribe owes (per client and *)
(* tile): the MMSIs of the tile set when the subscribe was handled, less   *)
(* those whose record expired since.                                       *)

NotOwed == [st |-> "none", need |-> {}]

OwedSubscribe(o, c, tiles) ==
  IF sock[c] # "open" THEN o
  ELSE [o EXCEPT ![c] = [t \in TileKeys |->
          IF t \in Elems(tiles) THEN [st |-> "pending", need |-> tileSet[t]]
          ELSE @[t]]]

OwedUpdate(o, cs, tile, vessels) ==
  [c \in Clients |->
     IF c \in cs /\ sock[c] = "open" /\ o[c][tile].st = "pending"
     THEN [o[c] EXCEPT ![tile] =
             [st |-> IF @.need \subseteq ListedMMSIs(vessels) THEN "met" ELSE "missed",
              need |-> @.need]]
     ELSE o[c]]

\* History of the writes a subscriber is due to see: when the script has
\* written `vessel`, every open subscriber of its tile is due the vessel
\* from the first dispatcher tick after the write.
DueWrite(d, vessel) ==
  [c \in Clients |->
     IF sock[c] = "open" /\ c \in clients /\ HasSubscribers(tileSubscriptions, vessel.tile)
        /\ c \in tileSubscriptions[vessel.tile]
     THEN d[c] \cup { [tile |-> vessel.tile, mmsi |-> vessel.mmsi,
                        after |-> tickNo, at |-> touch'[vessel.tile]] }
     ELSE d[c]]

\* a write whose record expires is no longer due
DueExpire(d) ==
  [c \in Clients |-> { o \in d[c] : vesselExp[o.mmsi] # 1 }]

OwedExpire(o) ==
  [c \in Clients |-> [t \in TileKeys |->
     [o[c][t] EXCEPT !.need = @ \ { m \in MMSIs : vesselExp[m] = 1 }]]]

-----------------------------------------------------------------------------
(* AISStreamClient: services/aisstream-client.ts *)

\* data that JSON.parse throws on
Unparseable == [pr |-> FALSE, text |-> "not JSON"]

\* handleMessage: parse the data (a throw of JSON.parse is caught and
\* logged) and the report and, when it is accepted, call
\* updateVesselPosition, which sends EVALSHA and awaits the reply
handleMessage(message) ==
  LET vessel == IF message = Unparseable THEN NoVessel
                ELSE parsePositionReport(message, nSeconds)
  IN  /\ nReports' = nReports + 1
      /\ redisQ' = IF vessel.ok THEN Append(redisQ, EvalCmd(vessel)) ELSE redisQ
      /\ UNCHANGED << storeVars, sessionVars, ingestDirty, wsDirty, wsRunning,
                       outbox, tickNo, touch, lastPut, due, owed, nClientMsgs,
                       nSeconds, dropped, upstream, sync, server, lost, mobile >>

\* a faulty tracking that leaves out the tile the vessel left
TrackDirty_NewOnly(dirty, result) == SetAdd(dirty, result.newTile)

\* updateVesselPosition after the await: the tiles of the reply go to
\* the dirty set and vesselUpdate is emitted
TrackDirty(dirty, result) ==
  SetAdd(IF result.oldTile # NoTile THEN SetAdd(dirty, result.oldTile) ELSE dirty,
         result.newTile)

\* a faulty listener that does not mark the vessel's tile
OnVesselUpdate_Ignore(dirty, vessel) == dirty

\* the server's listener of vesselUpdate (setupAISStreamListener)
OnVesselUpdate(dirty, vessel) == SetAdd(dirty, vessel.tile)

\* the server's listener of dirtyTiles (setupAISStreamListener)
OnDirtyTiles(dirty, tiles) == SetAddAll(dirty, tiles)

\* AISStreamClient.flushDirtyTiles, on its interval
IngestFlushDirtyTiles ==
  /\ ingestDirty # << >>
  /\ ingestDirty' = << >>
  /\ wsDirty' = OnDirtyTiles(wsDirty, ingestDirty)
  /\ UNCHANGED << storeVars, sessionVars, redisQ, wsRunning, outbox, tickNo,
                   touch, lastPut, due, owed, nReports, nClientMsgs, nSeconds, dropped, upstream, sync, server, lost, mobile >>

-----------------------------------------------------------------------------
(* Redis answers the oldest command; the coroutine that awaits it runs on  *)
(* to its next await.                                                      *)

\* EVALSHA of UPDATE_VESSEL_SCRIPT, then updateVesselPosition's second half
ReplyEvalsha ==
  /\ redisQ # << >>
  /\ Head(redisQ).op = "evalsha"
  /\ LET vessel == Head(redisQ).vessel
     IN  /\ UPDATE_VESSEL_SCRIPT(vessel, VesselTtl)
         /\ ingestDirty' = TrackDirty(ingestDirty, lastPut')
         /\ wsDirty' = OnVesselUpdate(wsDirty, vessel)
         /\ due' = DueWrite(due, vessel)
  /\ redisQ' = Tail(redisQ)
  /\ UNCHANGED << sessionVars, wsRunning, outbox, tickNo, owed, nReports,
                   nClientMsgs, nSeconds, dropped, upstream, sync, server, lost, mobile >>

\* a faulty catch that marks the vessel's tile all the same
OnStoreError_Mark(dirty, vessel) == SetAdd(dirty, vessel.tile)

\* updateVesselPosition's catch: the error is logged, the dirty set stays
OnStoreError(dirty, vessel) == dirty

\* EVALSHA is answered with an error (or not at all, the connection being
\* lost): the await throws, nothing was written, the catch logs
ReplyEvalshaError ==
  /\ redisQ # << >>
  /\ Head(redisQ).op = "evalsha"
  /\ ingestDirty' = OnStoreError(ingestDirty, Head(redisQ).vessel)
  /\ redisQ' = Tail(redisQ)
  /\ UNCHANGED << storeVars, sessionVars, wsDirty, wsRunning, outbox, tickNo, touch,
                   lastPut, due, owed, nReports, nClientMsgs, nSeconds, dropped, upstream, sync, server, lost, mobile >>

\* SMEMBERS of the current tile, in flushDirtyTiles and sendInitialTileData:
\* an empty tile is answered at once (the flush sends an empty update, the
\* snapshot nothing), any other tile has its hashes read
ReplySmembers ==
  /\ redisQ # << >>
  /\ Head(redisQ).op = "smembers"
  /\ LET co       == Head(redisQ).co
         tile     == Head(co.rest)
         mmsiList == tileSet[tile]
         message  == Msg("vessel_update", << >>, tile, EmptyList, co.kind,
                         co.tick, co.base[tile], touch[tile])
     IN  IF mmsiList = {}
         THEN /\ redisQ' = Tail(redisQ) \o NextTile(co)
              /\ outbox' = EmptyTileUpdate(outbox, co, message)
              /\ owed' = IF co.kind = "flush"
                          THEN OwedUpdate(owed, Recipients(co), tile, EmptyList)
                          ELSE owed
         ELSE /\ redisQ' = Append(Tail(redisQ),
                                  HgetallCmd([co EXCEPT !.seen = touch[tile]], mmsiList))
              /\ UNCHANGED << outbox, owed, dropped, upstream, sync, server, lost, mobile >>
  /\ UNCHANGED << storeVars, sessionVars, ingestDirty, wsDirty, wsRunning,
                   tickNo, touch, lastPut, due, nReports, nClientMsgs, nSeconds, dropped, upstream, sync, server, lost, mobile >>

\* the pipeline of HGETALLs: the vessels are built and sent
ReplyHgetall ==
  /\ redisQ # << >>
  /\ Head(redisQ).op = "hgetall"
  /\ LET co      == Head(redisQ).co
         tile    == Head(co.rest)
         vessels == BuildVessels(Head(redisQ).mmsis)
         message == Msg("vessel_update", << >>, tile, vessels, co.kind,
                        co.tick, co.base[tile], co.seen)
     IN  /\ redisQ' = Tail(redisQ) \o NextTile(co)
         /\ outbox' = SendAll(outbox, Recipients(co), message)
         /\ owed' = OwedUpdate(owed, Recipients(co), tile, vessels)
  /\ UNCHANGED << storeVars, sessionVars, ingestDirty, wsDirty, wsRunning,
                   tickNo, touch, lastPut, due, nReports, nClientMsgs, nSeconds, dropped, upstream, sync, server, lost, mobile >>

\* a faulty catch that marks the tile it failed on dirty again
OnFlushError_Requeue(dirty, co) == SetAdd(dirty, Head(co.rest))

\* flushDirtyTiles' catch: the error is logged, dirtyTiles is left as it is
OnFlushError(dirty, co) == dirty

\* SMEMBERS or the pipeline of a flush is answered with an error (or the
\* connection is lost): the await throws out of the loop over the tiles,
\* the catch around the loop logs, the tiles from the current one on are
\* left undone
ReplyFlushError ==
  /\ redisQ # << >>
  /\ Head(redisQ).op \in { "smembers", "hgetall" }
  /\ Head(redisQ).co.kind = "flush"
  /\ redisQ' = Tail(redisQ)
  /\ wsDirty' = OnFlushError(wsDirty, Head(redisQ).co)
  /\ lost' = lost \cup { << Head(redisQ).co.tick, t >> : t \in Elems(Head(redisQ).co.rest) }
  /\ UNCHANGED << storeVars, sessionVars, ingestDirty, wsRunning, outbox, tickNo, touch,
                   lastPut, due, owed, nReports, nClientMsgs, nSeconds, dropped, upstream,
                   sync, server, mobile >>

-----------------------------------------------------------------------------
(* VesselWebSocketServer: services/websocket-server.ts *)

\* flushDirtyTiles, on its interval, up to its first await (with no dirty
\* tile it returns at once); tickNo numbers the firings of the interval
WsFlushDirtyTiles ==
  /\ wsRunning
  /\ wsDirty' = << >>
  /\ tickNo' = tickNo + 1
  /\ redisQ' = redisQ \o FlushLoop(tileSubscriptions, wsDirty, tickNo + 1, touch)
  /\ UNCHANGED << storeVars, sessionVars, ingestDirty, wsRunning, outbox,
                   touch, lastPut, due, owed, nReports, nClientMsgs, nSeconds, dropped, upstream, sync, server, lost, mobile >>

handleConnection(c) ==
  /\ wsRunning
  /\ sock[c] = "none"
  /\ sock' = [sock EXCEPT ![c] = "open"]
  /\ clients' = clients \cup {c}
  /\ subscribedTiles' = [subscribedTiles EXCEPT ![c] = {}]
  /\ isAlive' = [isAlive EXCEPT ![c] = TRUE]
  /\ outbox' = [outbox EXCEPT ![c] = Append(@, Ack("connected", << >>, nClientMsgs + 1))]
  /\ nClientMsgs' = nClientMsgs + 1
  /\ UNCHANGED << storeVars, redisQ, ingestDirty, tileSubscriptions, wsDirty,
                   wsRunning, tickNo, touch, lastPut, due, owed, nReports, nSeconds, dropped, upstream, sync, server, lost, mobile >>

\* a message event is delivered while the socket is open or closing
CanReceive(c) == sock[c] \in {"open", "closing"}

handleSubscribe(c, tiles) ==
  /\ CanReceive(c)
  /\ subscribedTiles' = [subscribedTiles EXCEPT ![c] = @ \cup Elems(tiles)]
  /\ tileSubscriptions' = AddToTiles(tileSubscriptions, tiles, c)
  /\ outbox' = sendToClient(outbox, c, Ack("subscribed", tiles, nClientMsgs + 1))
  /\ owed' = OwedSubscribe(owed, c, tiles)
  /\ redisQ' = redisQ \o SnapshotLoop(c, tiles, nClientMsgs + 1, touch)
  /\ nClientMsgs' = nClientMsgs + 1
  /\ UNCHANGED << storeVars, ingestDirty, clients, isAlive, sock, wsDirty,
                   wsRunning, tickNo, touch, lastPut, due, nReports, nSeconds, dropped, upstream, sync, server, lost, mobile >>

handleUnsubscribe(c, tiles) ==
  /\ CanReceive(c)
  /\ subscribedTiles' = [subscribedTiles EXCEPT ![c] = @ \ Elems(tiles)]
  /\ tileSubscriptions' = RemoveFromTiles(tileSubscriptions, tiles, c)
  /\ redisQ' = MarkStale(redisQ, (DOMAIN tileSubscriptions) \ (DOMAIN tileSubscriptions'))
  /\ outbox' = sendToClient(outbox, c, Ack("unsubscribed", tiles, nClientMsgs + 1))
  /\ nClientMsgs' = nClientMsgs + 1
  /\ UNCHANGED << storeVars, ingestDirty, clients, isAlive, sock, wsDirty,
                   wsRunning, tickNo, touch, lastPut, due, owed, nReports, nSeconds, dropped, upstream, sync, server, lost, mobile >>

\* case "ping"
handlePing(c) ==
  /\ CanReceive(c)
  /\ outbox' = sendToClient(outbox, c, Ack("pong", << >>, nClientMsgs + 1))
  /\ nClientMsgs' = nClientMsgs + 1
  /\ UNCHANGED << storeVars, sessionVars, redisQ, ingestDirty, wsDirty,
                   wsRunning, tickNo, touch, lastPut, due, owed, nReports, nSeconds, dropped, upstream, sync, server, lost, mobile >>

\* ws.on("pong")
handlePong(c) ==
  /\ sock[c] = "open"
  /\ dropped[c] = -1
  /\ ~isAlive[c]
  /\ isAlive' = [isAlive EXCEPT ![c] = TRUE]
  /\ UNCHANGED << storeVars, redisQ, ingestDirty, clients, subscribedTiles,
                   sock, tileSubscriptions, wsDirty, wsRunning, outbox, tickNo,
                   touch, lastPut, due, owed, nReports, nClientMsgs, nSeconds, dropped, upstream, sync, server, lost, mobile >>

\* a faulty disconnect that leaves the index as it was
DisconnectAll_Keep(subs, cs) == subs

\* handleDisconnect for each client of `cs` in turn: the client leaves the
\* entries of the tiles it subscribed to, then the clients Map
RECURSIVE DisconnectAll(_, _)
DisconnectAll(subs, cs) ==
  IF cs = {} THEN subs
  ELSE LET c == CHOOSE x \in cs : TRUE
       IN  DisconnectAll(RemoveFromTiles(subs, SetToSeq(subscribedTiles[c]), c),
                         cs \ {c})

handleDisconnect(cs) ==
  /\ tileSubscriptions' = DisconnectAll(tileSubscriptions, cs)
  /\ clients' = clients \ cs
  /\ redisQ' = MarkStale(redisQ, (DOMAIN tileSubscriptions) \ (DOMAIN tileSubscriptions'))

\* ws.on("close"): the socket is closed, by the peer or after the server
\* closed or terminated it
CloseEvent(c) ==
  /\ sock[c] \in {"open", "closing", "terminated"}
  /\ sock' = [sock EXCEPT ![c] = "closed"]
  /\ handleDisconnect({c})
  /\ UNCHANGED << storeVars, ingestDirty, subscribedTiles, isAlive, wsDirty,
                   wsRunning, outbox, tickNo, touch, lastPut, due, owed, nReports,
                   nClientMsgs, nSeconds, dropped, upstream, sync, server, lost, mobile >>

\* a faulty heartbeat that finds no client dead
deadClients_None(cs, alive) == {}

\* heartbeat: the clients whose isAlive is still false, set by the last
\* ping and not set back by a pong
deadClients(cs, alive) == { c \in cs : ~alive[c] }

\* heartbeat, on its interval: a client that did not answer the last ping
\* is terminated and disconnected, the others are pinged
heartbeat ==
  /\ wsRunning
  /\ clients # {}
  /\ LET dead == deadClients(clients, isAlive)
     IN  /\ sock' = [c \in Clients |-> IF c \in dead THEN "terminated" ELSE sock[c]]
         /\ isAlive' = [c \in Clients |->
                          IF c \in clients \ dead THEN FALSE ELSE isAlive[c]]
         /\ handleDisconnect(dead)
  /\ dropped' = [c \in Clients |-> IF dropped[c] \in 0 .. 1 THEN dropped[c] + 1 ELSE dropped[c]]
  /\ UNCHANGED << storeVars, ingestDirty, subscribedTiles, wsDirty, wsRunning,
                   outbox, tickNo, touch, lastPut, due, owed, nReports, nClientMsgs,
                   nSeconds, upstream, sync, server, lost, mobile >>

\* stop: the intervals are cleared, every client's socket is closed with
\* 1001, and the two Maps are cleared
stop ==
  /\ wsRunning
  /\ wsRunning' = FALSE
  /\ sock' = [c \in Clients |-> IF c \in clients THEN "closing" ELSE sock[c]]
  /\ clients' = {}
  /\ tileSubscriptions' = << >>
  /\ redisQ' = MarkStale(redisQ, DOMAIN tileSubscriptions)
  /\ UNCHANGED << storeVars, ingestDirty, subscribedTiles, isAlive, wsDirty,
                   outbox, tickNo, touch, lastPut, due, owed, nReports, nClientMsgs,
                   nSeconds, dropped, upstream, sync, server, lost, mobile >>

\* the peer of a registered client goes away without a close frame: the
\* server sees no event, and no pong comes from it any more
SilentDrop(c) ==
  /\ c \in clients
  /\ sock[c] = "open"
  /\ dropped[c] = -1
  /\ dropped' = [dropped EXCEPT ![c] = 0]
  /\ UNCHANGED << storeVars, sessionVars, redisQ, ingestDirty, wsDirty, wsRunning,
                   outbox, tickNo, touch, lastPut, due, owed, nReports, nClientMsgs,
                   nSeconds, upstream, sync, server, lost, mobile >>

-----------------------------------------------------------------------------
(* AISStreamClient: the connection to the provider *)

\* Delays are counted in 1/64 ms, which keeps every product by 1.5 that
\* stays under the maximum a whole number, as it is exact in a JS double.
DelayUnit == 64
reconnectDelay == 1000 * DelayUnit
maxReconnectDelay == 30000 * DelayUnit
reconnectBackoffNum == 3
reconnectBackoffDen == 2

\* most closes of the provider's socket in a row without an open
MaxFails == 11

\* The client after its constructor.  ws: this.ws is set; readyState: the
\* state of the socket created last (NONE before the first); phase: where
\* start() is; fails and timerDelay are history: the closes seen since the
\* last open (or since the start), and the delay given to the pending timer;
\* live and timers are history too: the sockets made by connect() that are
\* connecting or open, and the timers set and neither fired nor cleared.
NewClient ==
  [ ws |-> FALSE, readyState |-> "NONE", reconnectTimeout |-> FALSE,
    currentReconnectDelay |-> reconnectDelay, isClosing |-> FALSE,
    phase |-> "new", fails |-> 0, timerDelay |-> 0, live |-> 0, timers |-> 0 ]

\* a faulty connect that does not look at isClosing
connect_Always(u) == [u EXCEPT !.ws = TRUE, !.readyState = "CONNECTING", !.live = @ + 1]

\* connect: nothing when closing (isConnecting is false between calls),
\* else a new socket, which starts connecting
connect(u) ==
  IF u.isClosing THEN u
  ELSE [u EXCEPT !.ws = TRUE, !.readyState = "CONNECTING", !.live = @ + 1]

\* a faulty scheduleReconnect that keeps the delay as it is
scheduleReconnect_Flat(u) ==
  IF u.reconnectTimeout \/ u.isClosing THEN u
  ELSE [u EXCEPT !.reconnectTimeout = TRUE, !.timerDelay = u.currentReconnectDelay, !.timers = @ + 1]

\* scheduleReconnect: nothing when a timer is pending or when closing, else
\* a timer of the current delay, and the delay grows for the next one
scheduleReconnect(u) ==
  IF u.reconnectTimeout \/ u.isClosing THEN u
  ELSE [u EXCEPT !.reconnectTimeout = TRUE,
                 !.timerDelay = u.currentReconnectDelay,
                 !.timers = @ + 1,
                 !.currentReconnectDelay =
                    Min((u.currentReconnectDelay * reconnectBackoffNum) \div reconnectBackoffDen,
                        maxReconnectDelay)]

\* a faulty handleClose that never reconnects
handleClose_Give(u) == [u EXCEPT !.ws = FALSE]

\* a faulty handleClose that connects at once and sets the timer as well
handleClose_Both(u) ==
  IF ~u.isClosing
  THEN [u EXCEPT !.ws = TRUE, !.readyState = "CONNECTING", !.live = @ + 1, !.reconnectTimeout = TRUE,
                 !.timerDelay = u.currentReconnectDelay, !.timers = @ + 1]
  ELSE [u EXCEPT !.ws = FALSE]

\* handleClose: this.ws is dropped and, unless closing, a reconnect is scheduled
handleClose(u) ==
  IF ~u.isClosing THEN scheduleReconnect([u EXCEPT !.ws = FALSE])
  ELSE [u EXCEPT !.ws = FALSE]

\* handleOpen: the backoff is reset (and the subscription is sent)
handleOpen(u) == [u EXCEPT !.currentReconnectDelay = reconnectDelay]

\* start() up to its first await, the loading of the script
start ==
  /\ upstream.phase = "new"
  /\ upstream' = [upstream EXCEPT !.phase = "loading"]
  /\ UNCHANGED servingVars

\* start() after the script is loaded: the flush interval is set and
\* connect() is called
startLoaded ==
  /\ upstream.phase = "loading"
  /\ upstream' = connect([upstream EXCEPT !.phase = "running"])
  /\ UNCHANGED servingVars

\* the socket's open event
UpstreamOpen ==
  /\ upstream.readyState = "CONNECTING"
  /\ upstream' = [handleOpen(upstream) EXCEPT !.readyState = "OPEN", !.fails = 0]
  /\ UNCHANGED servingVars

\* the socket's error event (handleError only logs and emits); the socket
\* then closes
UpstreamError ==
  /\ upstream.readyState \in {"CONNECTING", "OPEN"}
  /\ upstream.fails < MaxFails
  /\ upstream' = [upstream EXCEPT !.readyState = "CLOSING", !.live = @ - 1]
  /\ UNCHANGED servingVars

\* the socket's close event: of an open socket the provider closed, or of
\* one that is closing after an error or after close()
UpstreamClose ==
  /\ \/ upstream.readyState = "CLOSING"
     \/ upstream.readyState = "OPEN" /\ upstream.fails < MaxFails
  /\ upstream' = handleClose([upstream EXCEPT
                                 !.readyState = "CLOSED",
                                 !.fails = Min(upstream.fails + 1, MaxFails),
                                 !.live = IF upstream.readyState = "OPEN" THEN @ - 1 ELSE @])
  /\ UNCHANGED servingVars

\* the reconnect timer fires
ReconnectTimer ==
  /\ upstream.reconnectTimeout
  /\ upstream' = connect([upstream EXCEPT !.reconnectTimeout = FALSE, !.timerDelay = 0, !.timers = @ - 1])
  /\ UNCHANGED servingVars

\* AISStreamClient.stop: the timer is cleared and the socket, if there is
\* one, is closed and forgotten
stopClient ==
  /\ ~upstream.isClosing
  /\ upstream' = [upstream EXCEPT
                    !.isClosing = TRUE,
                    !.reconnectTimeout = FALSE,
                    !.timerDelay = 0,
                    !.timers = IF upstream.reconnectTimeout THEN @ - 1 ELSE @,
                    !.ws = FALSE,
                    !.live = IF upstream.ws /\ upstream.readyState \in {"CONNECTING", "OPEN"}
                             THEN @ - 1 ELSE @,
                    !.readyState = IF upstream.ws /\ @ \in {"CONNECTING", "OPEN"}
                                   THEN "CLOSING" ELSE @]
  /\ UNCHANGED servingVars

-----------------------------------------------------------------------------
(* BatchSyncService: services/batch-sync.ts (with services/postgres.ts) *)

\* config.batchSyncSize (BATCH_SYNC_SIZE, 1000 by default), scaled down
BatchSyncSize == 1

\* the most runs of syncVessels in flight, and the most failures
MaxSyncJobs == 1
MaxSyncFailures == 2

\* the order in which SCAN walks the vessel keys from cursor "0": some
\* order that is the same for every scan of an unchanged keyspace; the
\* cursor is the number of keys walked, 0 again at the end
ScanOrder == << 111, 222 >>

\* The service after its constructor.  upserts: the queries sent to
\* PostgreSQL and not answered; rows: vessels_current, mmsi -> tile;
\* failures and recovered are history: the runs that failed, and whether a
\* run upserted after one failed.
NewSync ==
  [ isRunning |-> FALSE, syncInterval |-> FALSE, upserts |-> << >>,
    rows |-> [m \in MMSIs |-> NoTile], failures |-> 0, recovered |-> FALSE ]

\* the commands of a run of syncVessels; `first` marks the run that
\* start() awaits before it sets the interval, cursor and keys are the
\* locals of the scan loop
ScanCmd(first, cursor, keys) == [op |-> "scan", co |-> [kind |-> "sync", first |-> first, cursor |-> cursor, keys |-> keys]]
SyncGetCmd(co, keys) == [op |-> "syncget", co |-> co, keys |-> keys]

\* the runs of syncVessels in flight
SyncJobs ==
  Cardinality({ i \in DOMAIN redisQ : redisQ[i].op \in { "scan", "syncget" } }) + Len(sync.upserts)

\* the keys one call of SCAN returns when it walks n keys on from the
\* cursor: those of them that exist
Scanned(cursor, n) == SelectSeq(SubSeq(ScanOrder, cursor + 1, cursor + n), LAMBDA m : vesselExp[m] > 0)

\* the cursor one call of SCAN returns
NextCursor(cursor, n) == IF cursor + n >= Len(ScanOrder) THEN 0 ELSE cursor + n

\* the scan loop ends when it holds batchSize keys or the cursor is "0" again
ScanEnds(cursor, keys) == Len(keys) >= BatchSyncSize \/ cursor = 0

\* vessel.mmsi && vessel.lat && vessel.lon: the results that are records
SyncVessels(keys) ==
  { m \in Elems(keys) : vesselHash[m].mmsi.t = "digits" /\ vesselHash[m].lat.t = "digits" /\ vesselHash[m].lon.t = "digits" }

\* a faulty catch that ends the service
SyncFailed_Halt(s, first) == [s EXCEPT !.isRunning = FALSE, !.failures = @ + 1]

\* a run has ended in an error: runSyncLoop's catch logs it; the first
\* run ended, start() sets the interval
SyncFailed(s, first) ==
  [s EXCEPT !.failures = @ + 1, !.syncInterval = @ \/ first]

\* a run has ended without error
SyncDone(s, first) == [s EXCEPT !.syncInterval = @ \/ first]

\* BatchSyncService.start up to the await of the first run
syncStart ==
  /\ ~sync.syncInterval
  /\ ~sync.isRunning
  /\ sync' = [sync EXCEPT !.isRunning = TRUE]
  /\ redisQ' = Append(redisQ, ScanCmd(TRUE, 0, << >>))
  /\ UNCHANGED << storeVars, sessionVars, ingestDirty, wsDirty, wsRunning, outbox, tickNo,
                   touch, lastPut, owed, due, dropped, upstream, nReports, nClientMsgs, nSeconds, server, lost, mobile >>

\* the interval fires: runSyncLoop starts a run, with a scan from cursor "0"
syncTick ==
  /\ sync.syncInterval
  /\ sync.isRunning
  /\ SyncJobs < MaxSyncJobs
  /\ redisQ' = Append(redisQ, ScanCmd(FALSE, 0, << >>))
  /\ UNCHANGED << storeVars, sessionVars, ingestDirty, wsDirty, wsRunning, outbox, tickNo,
                   touch, lastPut, owed, due, dropped, upstream, sync, nReports, nClientMsgs, nSeconds, server, lost, mobile >>

\* one SCAN is answered, having walked some keys on from the cursor (COUNT
\* is a hint: the call may return fewer keys or more): the loop goes on
\* with the next SCAN, or it ends: with no key the run ends, else all the
\* keys it holds are read
ReplyScan ==
  /\ redisQ # << >>
  /\ Head(redisQ).op = "scan"
  /\ \E n \in 1..Len(ScanOrder) :
       LET co     == Head(redisQ).co
           cursor == NextCursor(co.cursor, n)
           keys   == co.keys \o Scanned(co.cursor, n)
       IN  /\ co.cursor + n <= Len(ScanOrder)
           /\ IF ~ScanEnds(cursor, keys)
              THEN /\ redisQ' = Append(Tail(redisQ), ScanCmd(co.first, cursor, keys))
                   /\ sync' = sync
              ELSE IF keys = << >>
              THEN /\ redisQ' = Tail(redisQ)
                   /\ sync' = SyncDone(sync, co.first)
              ELSE /\ redisQ' = Append(Tail(redisQ), SyncGetCmd(co, keys))
                   /\ sync' = sync
  /\ UNCHANGED << storeVars, sessionVars, ingestDirty, wsDirty, wsRunning, outbox, tickNo,
                   touch, lastPut, owed, due, dropped, upstream, nReports, nClientMsgs, nSeconds, server, lost, mobile >>

\* the pipeline of HGETALL is answered: with no record the run ends, else
\* the upsert is sent to PostgreSQL
ReplySyncGet ==
  /\ redisQ # << >>
  /\ Head(redisQ).op = "syncget"
  /\ LET co      == Head(redisQ).co
         vessels == SyncVessels(Head(redisQ).keys)
     IN  IF vessels = {}
         THEN sync' = SyncDone(sync, co.first)
         ELSE sync' = [sync EXCEPT !.upserts =
                         Append(@, [first |-> co.first, values |-> [m \in vessels |-> vesselHash[m].tile]])]
  /\ redisQ' = Tail(redisQ)
  /\ UNCHANGED << storeVars, sessionVars, ingestDirty, wsDirty, wsRunning, outbox, tickNo,
                   touch, lastPut, owed, due, dropped, upstream, nReports, nClientMsgs, nSeconds, server, lost, mobile >>

\* INSERT ... ON CONFLICT (mmsi) DO UPDATE is executed
PgUpsert ==
  /\ sync.upserts # << >>
  /\ LET q == Head(sync.upserts)
     IN  sync' = [SyncDone(sync, q.first) EXCEPT
                    !.upserts = Tail(@),
                    !.rows = [m \in MMSIs |-> IF m \in DOMAIN q.values THEN q.values[m] ELSE @[m]],
                    !.recovered = @ \/ sync.failures > 0]
  /\ UNCHANGED servingVarsButSync

\* SCAN or the pipeline fails: the await throws, syncVessels rethrows
ReplySyncError ==
  /\ redisQ # << >>
  /\ Head(redisQ).op \in { "scan", "syncget" }
  /\ sync.failures < MaxSyncFailures
  /\ redisQ' = Tail(redisQ)
  /\ sync' = SyncFailed(sync, Head(redisQ).co.first)
  /\ UNCHANGED << storeVars, sessionVars, ingestDirty, wsDirty, wsRunning, outbox, tickNo,
                   touch, lastPut, owed, due, dropped, upstream, nReports, nClientMsgs, nSeconds, server, lost, mobile >>

\* the upsert fails: pg.query throws, syncVessels rethrows
PgUpsertError ==
  /\ sync.upserts # << >>
  /\ sync.failures < MaxSyncFailures
  /\ sync' = [SyncFailed(sync, Head(sync.upserts).first) EXCEPT !.upserts = Tail(@)]
  /\ UNCHANGED servingVarsButSync

-----------------------------------------------------------------------------
(* Server: index.ts, start() and the graceful shutdown *)

\* the grace window of shutdown in seconds (5 in the source), scaled down
GraceSeconds == 2

\* the components in the order in which start() starts them
BootOrder == << "redis", "postgres", "aisstream", "batchSync", "http", "websocket" >>

\* The server after its constructor.  pc: the call of start() or of the
\* shutdown that comes next; listening: the HTTP server accepts
\* connections; signalAt: the second of the shutdown signal; started,
\* stopped and status are history: the components in the order in which
\* they were started and stopped, and the status of the last HTTP response;
\* exitCode: -1 while the process runs, else the code given to process.exit;
\* fatal is history: the component whose failure ended the process.
NewServer ==
  [ pc |-> "initRedis", isShuttingDown |-> FALSE, listening |-> FALSE, signalAt |-> 0,
    started |-> << >>, stopped |-> << >>, status |-> 0, exitCode |-> -1, fatal |-> "none" ]

\* the server after start()
RunningServer == [NewServer EXCEPT !.pc = "running", !.listening = TRUE, !.started = BootOrder]

initRedis ==
  /\ server.pc = "initRedis"
  /\ server' = [server EXCEPT !.pc = "initPostgres", !.started = Append(@, "redis")]
  /\ UNCHANGED << storeVars, sessionVars, redisQ, ingestDirty, wsDirty, wsRunning, outbox, tickNo, touch,
                   lastPut, owed, due, dropped, upstream, sync, nReports, nClientMsgs, nSeconds, lost, mobile >>

initPostgres ==
  /\ server.pc = "initPostgres"
  /\ server' = [server EXCEPT !.pc = "initAISStreamClient", !.started = Append(@, "postgres")]
  /\ UNCHANGED << storeVars, sessionVars, redisQ, ingestDirty, wsDirty, wsRunning, outbox, tickNo, touch,
                   lastPut, owed, due, dropped, upstream, sync, nReports, nClientMsgs, nSeconds, lost, mobile >>

\* initAISStreamClient: the client is made and its start() runs up to the
\* loading of the script
initAISStreamClient ==
  /\ server.pc = "initAISStreamClient"
  /\ upstream.phase = "new"
  /\ upstream' = [upstream EXCEPT !.phase = "loading"]
  /\ server' = [server EXCEPT !.pc = "startBatchSync", !.started = Append(@, "aisstream")]
  /\ UNCHANGED << storeVars, sessionVars, redisQ, ingestDirty, wsDirty, wsRunning, outbox, tickNo, touch,
                   lastPut, owed, due, dropped, sync, nReports, nClientMsgs, nSeconds, lost, mobile >>

\* the client's start() has returned: startBatchSync makes the service,
\* whose start() begins its first run
startBatchSync ==
  /\ server.pc = "startBatchSync"
  /\ upstream.phase = "running"
  /\ sync' = [sync EXCEPT !.isRunning = TRUE]
  /\ redisQ' = Append(redisQ, ScanCmd(TRUE, 0, << >>))
  /\ server' = [server EXCEPT !.pc = "createServer", !.started = Append(@, "batchSync")]
  /\ UNCHANGED << storeVars, sessionVars, ingestDirty, wsDirty, wsRunning, outbox, tickNo, touch,
                   lastPut, owed, due, dropped, upstream, nReports, nClientMsgs, nSeconds, lost, mobile >>

\* the service's start() has returned: createServer, initWebSocketServer
\* (VesselWebSocketServer.start), listen and setupGracefulShutdown
createServer ==
  /\ server.pc = "createServer"
  /\ sync.syncInterval
  /\ wsRunning' = TRUE
  /\ server' = [server EXCEPT !.pc = "running", !.listening = TRUE,
                              !.started = @ \o << "http", "websocket" >>]
  /\ UNCHANGED << storeVars, sessionVars, redisQ, ingestDirty, wsDirty, outbox, tickNo, touch,
                   lastPut, owed, due, dropped, upstream, sync, nReports, nClientMsgs, nSeconds, lost, mobile >>

\* an HTTP request reaches the middleware: 503 when shutting down, else
\* it goes on to a route
httpRequest ==
  /\ server.listening
  /\ server' = [server EXCEPT !.status = IF server.isShuttingDown THEN 503 ELSE 200]
  /\ UNCHANGED << storeVars, sessionVars, redisQ, ingestDirty, wsDirty, wsRunning, outbox, tickNo, touch,
                   lastPut, owed, due, dropped, upstream, sync, nReports, nClientMsgs, nSeconds, lost, mobile >>

\* SIGTERM or SIGINT (the first one): the flag is set and the timer of the
\* grace window is started
shutdown ==
  /\ server.pc = "running"
  /\ server' = [server EXCEPT !.pc = "grace", !.isShuttingDown = TRUE, !.signalAt = nSeconds]
  /\ UNCHANGED << storeVars, sessionVars, redisQ, ingestDirty, wsDirty, wsRunning, outbox, tickNo, touch,
                   lastPut, owed, due, dropped, upstream, sync, nReports, nClientMsgs, nSeconds, lost, mobile >>

\* the timer of the grace window fires: stopWebSocketServer
\* (VesselWebSocketServer.stop)
stopWebSocketServer ==
  /\ server.pc = "grace"
  /\ nSeconds >= server.signalAt + GraceSeconds
  /\ wsRunning' = FALSE
  /\ sock' = [c \in Clients |-> IF c \in clients THEN "closing" ELSE sock[c]]
  /\ clients' = {}
  /\ tileSubscriptions' = << >>
  /\ redisQ' = MarkStale(redisQ, DOMAIN tileSubscriptions)
  /\ server' = [server EXCEPT !.pc = "stopAISStreamClient", !.stopped = Append(@, "websocket")]
  /\ UNCHANGED << storeVars, ingestDirty, subscribedTiles, isAlive, wsDirty, outbox, tickNo, touch,
                   lastPut, owed, due, dropped, upstream, sync, nReports, nClientMsgs, nSeconds, lost, mobile >>

\* stopAISStreamClient (AISStreamClient.stop)
stopAISStreamClient ==
  /\ server.pc = "stopAISStreamClient"
  /\ upstream' = [upstream EXCEPT
                    !.isClosing = TRUE,
                    !.reconnectTimeout = FALSE,
                    !.timerDelay = 0,
                    !.timers = IF upstream.reconnectTimeout THEN @ - 1 ELSE @,
                    !.ws = FALSE,
                    !.live = IF upstream.ws /\ upstream.readyState \in {"CONNECTING", "OPEN"}
                             THEN @ - 1 ELSE @,
                    !.readyState = IF upstream.ws /\ @ \in {"CONNECTING", "OPEN"}
                                   THEN "CLOSING" ELSE @]
  /\ server' = [server EXCEPT !.pc = "stopBatchSync", !.stopped = Append(@, "aisstream")]
  /\ UNCHANGED << storeVars, sessionVars, redisQ, ingestDirty, wsDirty, wsRunning, outbox, tickNo, touch,
                   lastPut, owed, due, dropped, sync, nReports, nClientMsgs, nSeconds, lost, mobile >>

\* stopBatchSync (BatchSyncService.stop: nothing when no interval is set)
stopBatchSync ==
  /\ server.pc = "stopBatchSync"
  /\ sync' = IF sync.syncInterval THEN [sync EXCEPT !.isRunning = FALSE, !.syncInterval = FALSE] ELSE sync
  /\ server' = [server EXCEPT !.pc = "closeRedis", !.stopped = Append(@, "batchSync")]
  /\ UNCHANGED << storeVars, sessionVars, redisQ, ingestDirty, wsDirty, wsRunning, outbox, tickNo, touch,
                   lastPut, owed, due, dropped, upstream, nReports, nClientMsgs, nSeconds, lost, mobile >>

closeRedis ==
  /\ server.pc = "closeRedis"
  /\ server' = [server EXCEPT !.pc = "closePostgres", !.stopped = Append(@, "redis")]
  /\ UNCHANGED << storeVars, sessionVars, redisQ, ingestDirty, wsDirty, wsRunning, outbox, tickNo, touch,
                   lastPut, owed, due, dropped, upstream, sync, nReports, nClientMsgs, nSeconds, lost, mobile >>

closePostgres ==
  /\ server.pc = "closePostgres"
  /\ server' = [server EXCEPT !.pc = "closeHttpServer", !.stopped = Append(@, "postgres")]
  /\ UNCHANGED << storeVars, sessionVars, redisQ, ingestDirty, wsDirty, wsRunning, outbox, tickNo, touch,
                   lastPut, owed, due, dropped, upstream, sync, nReports, nClientMsgs, nSeconds, lost, mobile >>

\* httpServer.close, and process.exit(0) once it has closed
closeHttpServer ==
  /\ server.pc = "closeHttpServer"
  /\ server' = [server EXCEPT !.pc = "exited", !.listening = FALSE, !.stopped = Append(@, "http"),
                              !.exitCode = 0]
  /\ UNCHANGED << storeVars, sessionVars, redisQ, ingestDirty, wsDirty, wsRunning, outbox, tickNo, touch,
                   lastPut, owed, due, dropped, upstream, sync, nReports, nClientMsgs, nSeconds, lost, mobile >>

\* the catch of start(): the error is logged and the process exits with 1
StartFailed(sv, component) == [sv EXCEPT !.pc = "exited", !.exitCode = 1, !.fatal = component]

\* initRedis throws: the PING of the new client fails
initRedisFails ==
  /\ server.pc = "initRedis"
  /\ server' = StartFailed(server, "redis")
  /\ UNCHANGED << storeVars, sessionVars, redisQ, ingestDirty, wsDirty, wsRunning, outbox, tickNo, touch,
                   lastPut, owed, due, dropped, upstream, sync, nReports, nClientMsgs, nSeconds, lost, mobile >>

\* initPostgres throws: the test connection or its query fails
initPostgresFails ==
  /\ server.pc = "initPostgres"
  /\ server' = StartFailed(server, "postgres")
  /\ UNCHANGED << storeVars, sessionVars, redisQ, ingestDirty, wsDirty, wsRunning, outbox, tickNo, touch,
                   lastPut, owed, due, dropped, upstream, sync, nReports, nClientMsgs, nSeconds, lost, mobile >>

\* initAISStreamClient throws: SCRIPT LOAD fails in the client's start()
loadRedisScriptsFails ==
  /\ server.pc = "startBatchSync"
  /\ upstream.phase = "loading"
  /\ upstream' = [upstream EXCEPT !.phase = "failed"]
  /\ server' = StartFailed(server, "redis")
  /\ UNCHANGED << storeVars, sessionVars, redisQ, ingestDirty, wsDirty, wsRunning, outbox, tickNo, touch,
                   lastPut, owed, due, dropped, sync, nReports, nClientMsgs, nSeconds, lost, mobile >>

\* a faulty expiry that tells the dispatcher of the tiles of the records
\* that expire
Second_Notify ==
  /\ ExpireKeys
  /\ owed' = OwedExpire(owed)
  /\ due' = DueExpire(due)
  /\ nSeconds' = nSeconds + 1
  /\ wsDirty' = SetAddAll(wsDirty, SetToSeq({ vesselHash[m].tile : m \in { x \in MMSIs : vesselExp[x] = 1 } }))
  /\ UNCHANGED << sessionVars, redisQ, ingestDirty, wsRunning, outbox,
                   tickNo, touch, lastPut, nReports, nClientMsgs, dropped, upstream, sync, server, lost, mobile >>

\* a second of wall-clock time
Second ==
  /\ ExpireKeys
  /\ owed' = OwedExpire(owed)
  /\ due' = DueExpire(due)
  /\ nSeconds' = nSeconds + 1
  /\ UNCHANGED << sessionVars, redisQ, ingestDirty, wsDirty, wsRunning, outbox,
                   tickNo, touch, lastPut, nReports, nClientMsgs, dropped, upstream, sync, server, lost, mobile >>

-----------------------------------------------------------------------------
(* WebSocketService of the mobile app: services/websocket.ts.  ws is null  *)
(* or the readyState of the socket the service holds.  History: by, the    *)
(* caller of the connect() that made the socket (the reconnect timer or    *)
(* anyone else); session, the tiles the server holds for the socket's      *)
(* session, which starts empty and follows the subscribe and unsubscribe   *)
(* messages sent on the socket; delay, the delay given to the last timer.  *)

WebSocketService_initialReconnectDelay == 1000
WebSocketService_maxReconnectDelay == 30000

NewWebSocketService ==
  [ ws |-> "null", subscribedTiles |-> {}, reconnectTimeout |-> FALSE,
    reconnectAttempts |-> 0, isIntentionalDisconnect |-> FALSE,
    by |-> "-", session |-> {}, delay |-> 0 ]

\* isConnected
WebSocketService_isConnected(m) == m.ws = "OPEN"

\* connect, up to the return of the promise: a new socket, which connects
WebSocketService_connect(m, caller) ==
  [m EXCEPT !.isIntentionalDisconnect = FALSE, !.ws = "CONNECTING",
            !.by = caller, !.session = {}]

\* subscribe: nothing when not connected
WebSocketService_subscribe(m, tiles) ==
  IF ~WebSocketService_isConnected(m) THEN m
  ELSE [m EXCEPT !.subscribedTiles = @ \cup tiles, !.session = @ \cup tiles]

\* unsubscribe: nothing when not connected
WebSocketService_unsubscribe(m, tiles) ==
  IF ~WebSocketService_isConnected(m) THEN m
  ELSE [m EXCEPT !.subscribedTiles = @ \ tiles, !.session = @ \ tiles]

\* disconnect: the timer is cleared, the socket closed and let go (its close
\* event finds isIntentionalDisconnect set), the tiles forgotten
WebSocketService_disconnect(m) ==
  [m EXCEPT !.isIntentionalDisconnect = TRUE, !.reconnectTimeout = FALSE,
            !.ws = "null", !.subscribedTiles = {}, !.session = {}]

\* the delay of the next attempt
WebSocketService_delay(attempts) ==
  Min(WebSocketService_initialReconnectDelay * Pow2(attempts), WebSocketService_maxReconnectDelay)

\* scheduleReconnect: one timer at most, none after a disconnect
WebSocketService_scheduleReconnect(m) ==
  IF m.reconnectTimeout \/ m.isIntentionalDisconnect THEN m
  ELSE [m EXCEPT !.reconnectTimeout = TRUE, !.delay = WebSocketService_delay(m.reconnectAttempts)]

\* the then() of the timer's connect(): the tiles held are subscribed again
WebSocketService_resubscribe(m) ==
  IF m.subscribedTiles = {} THEN m
  ELSE WebSocketService_subscribe([m EXCEPT !.subscribedTiles = {}], m.subscribedTiles)

\* onopen, and the continuation of the promise it resolves: only the
\* connect() of the reconnect timer has one that subscribes
WebSocketService_onopen(m) ==
  LET opened == [m EXCEPT !.ws = "OPEN", !.reconnectAttempts = 0]
  IN  IF m.by = "timer" THEN WebSocketService_resubscribe(opened) ELSE opened

\* onclose: cleanup, and a reconnect unless the close was asked for
WebSocketService_onclose(m) ==
  IF m.isIntentionalDisconnect THEN [m EXCEPT !.ws = "null", !.session = {}]
  ELSE WebSocketService_scheduleReconnect([m EXCEPT !.ws = "null", !.session = {}])

\* the reconnect timer fires
WebSocketService_timer(m) ==
  WebSocketService_connect([m EXCEPT !.reconnectTimeout = FALSE, !.reconnectAttempts = @ + 1], "timer")

serverSide == << storeVars, sessionVars, redisQ, ingestDirty, wsDirty, wsRunning, outbox, tickNo, touch, lastPut, owed, due, dropped, upstream, sync, server, nReports, nClientMsgs, nSeconds, lost >>

\* useMapServices at mount, or the reconnect button, which is shown while
\* the service is not connected
MobileConnect ==
  /\ ~WebSocketService_isConnected(mobile)
  /\ mobile' = WebSocketService_connect(mobile, "direct")
  /\ UNCHANGED serverSide

\* the socket opens
MobileOpen ==
  /\ mobile.ws = "CONNECTING"
  /\ mobile' = WebSocketService_onopen(mobile)
  /\ UNCHANGED serverSide

\* the socket fails to connect, or is closed by the server or the network
MobileClose ==
  /\ mobile.ws \in { "CONNECTING", "OPEN" }
  /\ mobile' = WebSocketService_onclose(mobile)
  /\ UNCHANGED serverSide

MobileTimer ==
  /\ mobile.reconnectTimeout
  /\ mobile' = WebSocketService_timer(mobile)
  /\ UNCHANGED serverSide

\* the map moves while connected
MobileSubscribe(tiles) ==
  /\ WebSocketService_isConnected(mobile)
  /\ mobile' = WebSocketService_subscribe(mobile, tiles)
  /\ UNCHANGED serverSide

MobileUnsubscribe(tiles) ==
  /\ WebSocketService_isConnected(mobile)
  /\ mobile' = WebSocketService_unsubscribe(mobile, tiles)
  /\ UNCHANGED serverSide

\* useMapServices at unmount
MobileDisconnect ==
  /\ mobile' = WebSocketService_disconnect(mobile)
  /\ UNCHANGED serverSide

-----------------------------------------------------------------------------
(* Specifications *)

\* After boot: an empty store, no client, the intervals set
Init ==
  /\ vesselHash = [m \in MMSIs |-> EmptyHash]
  /\ vesselExp = [m \in MMSIs |-> 0]
  /\ tileSet = [t \in TileKeys |-> {}]
  /\ tileExp = [t \in TileKeys |-> 0]
  /\ redisQ = << >>
  /\ ingestDirty = << >>
  /\ clients = {}
  /\ subscribedTiles = [c \in Clients |-> {}]
  /\ isAlive = [c \in Clients |-> FALSE]
  /\ sock = [c \in Clients |-> "none"]
  /\ tileSubscriptions = << >>
  /\ wsDirty = << >>
  /\ wsRunning = TRUE
  /\ outbox = [c \in Clients |-> << >>]
  /\ tickNo = 0
  /\ touch = [t \in TileKeys |-> 0]
  /\ lastPut = [mmsi |-> 0, oldTile |-> NoTile, newTile |-> NoTile]
  /\ owed = [c \in Clients |-> [t \in TileKeys |-> NotOwed]]
  /\ due = [c \in Clients |-> {}]
  /\ age = [m \in MMSIs |-> VesselTtl]
  /\ dropped = [c \in Clients |-> -1]
  /\ upstream = NewClient
  /\ sync = NewSync
  /\ server = RunningServer
  /\ nReports = 0
  /\ nClientMsgs = 0
  /\ nSeconds = 0
  /\ lost = {}
  /\ mobile = NewWebSocketService

\* a position report of the provider with every field of PositionReport
Report(mmsi, pos, heading) ==
  WireMessage(TRUE, Num(mmsi), Num(pos[1]), Num(pos[2]), Num(45), Num(12),
              heading, Num(mmsi), Num(pos[1]), Num(pos[2]), JsUndef)

TileA == latLonToTileKey(2240, 11411, tileZoom)
TileB == latLonToTileKey(2241, 11420, tileZoom)

\* --- the store under reports and the passing of time
MaxStoreReports == 4
MaxStoreSeconds == 3

StoreReports ==
  { Report(m, p, Num(50)) : m \in MMSIs, p \in { <<2240, 11411>>, <<2241, 11420>> } }

StoreNext ==
  \/ /\ nReports < MaxStoreReports
     /\ \E msg \in StoreReports : handleMessage(msg)
  \/ ReplyEvalsha
  \/ /\ nSeconds < MaxStoreSeconds
     /\ Second

SpecStore == Init /\ [][StoreNext]_vars

\* --- the sessions of the WebSocket server, on an empty store
MaxSessionMsgs == 4

TileLists == { << TileA >>, << TileB >>, << TileA, TileB >> }

SessionNext ==
  \/ /\ nClientMsgs < MaxSessionMsgs
     /\ \E c \in Clients :
          \/ handleConnection(c)
          \/ \E tiles \in TileLists : handleSubscribe(c, tiles)
          \/ \E tiles \in TileLists : handleUnsubscribe(c, tiles)
          \/ handlePing(c)
  \/ \E c \in Clients : handlePong(c)
  \/ \E c \in Clients : CloseEvent(c)
  \/ heartbeat
  \/ stop
  \/ ReplySmembers

SpecSessions == Init /\ [][SessionNext]_vars

\* --- the dispatcher: reports, one subscriber, and the two flush intervals
MaxDispatchReports == 2
MaxDispatchMsgs == 2
MaxDispatchTicks == 2
MaxDispatchSeconds == 1

DispatchReports ==
  { Report(m, p, Num(50)) : m \in MMSIs, p \in { <<2240, 11411>>, <<2241, 11420>> } }

DispatchNext ==
  \/ /\ nReports < MaxDispatchReports
     /\ \E msg \in DispatchReports : handleMessage(msg)
  \/ ReplyEvalsha
  \/ ReplySmembers
  \/ ReplyHgetall
  \/ IngestFlushDirtyTiles
  \/ /\ tickNo < MaxDispatchTicks
     /\ WsFlushDirtyTiles
  \/ /\ nClientMsgs < MaxDispatchMsgs
     /\ \/ handleConnection("c1")
        \/ \E tiles \in TileLists : handleSubscribe("c1", tiles)
  \/ /\ nSeconds < MaxDispatchSeconds
     /\ Second

SpecDispatch == Init /\ [][DispatchNext]_vars

\* --- the parsing of provider messages
MaxParseReports == 3

ParseReports ==
  { Report(m, p, h) : m \in MMSIs, p \in Positions,
                      h \in { Num(50), Num(HeadingNA), JsUndef } }

ParseNext ==
  \/ /\ nReports < MaxParseReports
     /\ \E msg \in ParseReports : handleMessage(msg)
  \/ ReplyEvalsha

SpecParse == Init /\ [][ParseNext]_vars

\* --- the vessel lists read for a subscriber while records expire
MaxListReports == 2
MaxListMsgs == 2
MaxListTicks == 1
MaxListSeconds == 2

ListReports == { Report(m, << 2240, 11411 >>, Num(50)) : m \in MMSIs }

ListNext ==
  \/ /\ nReports < MaxListReports
     /\ \E msg \in ListReports : handleMessage(msg)
  \/ ReplyEvalsha
  \/ ReplySmembers
  \/ ReplyHgetall
  \/ /\ tickNo < MaxListTicks
     /\ WsFlushDirtyTiles
  \/ /\ nClientMsgs < MaxListMsgs
     /\ \/ handleConnection("c1")
        \/ handleSubscribe("c1", << TileA >>)
  \/ /\ nSeconds < MaxListSeconds
     /\ Second

SpecLists == Init /\ [][ListNext]_vars

\* --- sessions that end while the dispatcher is at work
MaxEndReports == 1
MaxEndMsgs == 4
MaxEndTicks == 1

EndNext ==
  \/ /\ nReports < MaxEndReports
     /\ \E msg \in ListReports : handleMessage(msg)
  \/ ReplyEvalsha
  \/ ReplySmembers
  \/ ReplyHgetall
  \/ /\ tickNo < MaxEndTicks
     /\ WsFlushDirtyTiles
  \/ /\ nClientMsgs < MaxEndMsgs
     /\ \E c \in Clients :
          \/ handleConnection(c)
          \/ handleSubscribe(c, << TileA >>)
  \/ \E c \in Clients : handlePong(c)
  \/ \E c \in Clients : CloseEvent(c)
  \/ heartbeat
  \/ stop

SpecEndings == Init /\ [][EndNext]_vars

\* --- sessions whose peer drops the connection, with or without a close
\* event; only a peer that is still there sends messages and pongs

MaxDropMsgs == 3

DropNext ==
  \/ /\ nClientMsgs < MaxDropMsgs
     /\ \E c \in Clients :
          \/ handleConnection(c)
          \/ dropped[c] = -1 /\ \E tiles \in TileLists : handleSubscribe(c, tiles)
  \/ \E c \in Clients : handlePong(c)
  \/ \E c \in Clients : SilentDrop(c)
  \/ \E c \in Clients : CloseEvent(c)
  \/ heartbeat
  \/ ReplySmembers

SpecDrops == Init /\ [][DropNext]_vars

\* --- provider messages that must be dropped, among good ones
MaxInvalidReports == 3

\* messages with every combination of present, absent, null, zero and
\* out-of-range fields
WireSamples ==
  { WireMessage(TRUE, id, lat, lon, Num(45), Num(12), Num(50), mid, mlat, mlon, JsUndef) :
      id \in { JsUndef, Num(0), Num(111) }, mid \in { JsUndef, Num(222) },
      lat \in { JsUndef, JsNull, Num(2240), Num(9001) }, mlat \in { JsUndef, Num(2240) },
      lon \in { JsUndef, Num(11411), Num(-18001) }, mlon \in { JsUndef, Num(11411) } }
  \cup { WireMessage(FALSE, Num(111), Num(2240), Num(11411), Num(45), Num(12), Num(50), Num(111), Num(2240), Num(11411), JsUndef) }

\* a field that is there: neither undefined nor null
Given(x) == x.t \notin { "undefined", "null" }

\* the position of a message: PositionReport's, else MetaData's
WireLat(msg) == IF Given(msg.Latitude) THEN msg.Latitude ELSE msg.metaLat
WireLon(msg) == IF Given(msg.Longitude) THEN msg.Longitude ELSE msg.metaLon

\* a message that has no PositionReport, or no MMSI in UserID nor in
\* MetaData, or a latitude or longitude in neither, or coordinates outside
\* [-90, 90] x [-180, 180]
InvalidPayload(msg) ==
  \/ ~msg.pr
  \/ ~Given(JsOr(msg.UserID, msg.metaMMSI))
  \/ ~Given(WireLat(msg))
  \/ ~Given(WireLon(msg))
  \/ WireLat(msg).v < -9000 \/ WireLat(msg).v > 9000
  \/ WireLon(msg).v < -18000 \/ WireLon(msg).v > 18000

InvalidReports == { msg \in WireSamples : InvalidPayload(msg) } \cup { Unparseable }

InvalidNext ==
  \/ /\ nReports < MaxInvalidReports
     /\ \E msg \in InvalidReports \cup StoreReports : handleMessage(msg)
  \/ ReplyEvalsha
  \/ IngestFlushDirtyTiles

SpecInvalid == Init /\ [][InvalidNext]_vars

\* --- a store that fails some of the updates, under a connected client
MaxFailReports == 3

StoreFailNext ==
  \/ start
  \/ startLoaded
  \/ UpstreamOpen
  \/ /\ nReports < MaxFailReports
     /\ upstream.readyState = "OPEN"
     /\ \E msg \in StoreReports : handleMessage(msg)
  \/ ReplyEvalsha
  \/ ReplyEvalshaError
  \/ IngestFlushDirtyTiles

SpecStoreFail == Init /\ [][StoreFailNext]_vars

\* --- the snapshots of subscribes, over a store that reports fill
MaxSnapReports == 2
MaxSnapMsgs == 3

SnapTileLists == { << TileA >>, << TileA, TileB >>, << TileA, TileA >> }

SnapNext ==
  \/ /\ nReports < MaxSnapReports
     /\ \E msg \in StoreReports : handleMessage(msg)
  \/ ReplyEvalsha
  \/ ReplySmembers
  \/ ReplyHgetall
  \/ /\ nClientMsgs < MaxSnapMsgs
     /\ \E c \in Clients :
          \/ handleConnection(c)
          \/ \E tiles \in SnapTileLists : handleSubscribe(c, tiles)

SpecSnapshot == Init /\ [][SnapNext]_vars

\* --- sessions that subscribe again to tiles they hold
MaxResubMsgs == 5

ResubNext ==
  \/ /\ nClientMsgs < MaxResubMsgs
     /\ \E c \in Clients :
          \/ handleConnection(c)
          \/ \E tiles \in TileLists : handleSubscribe(c, tiles)
          \/ \E tiles \in TileLists : handleUnsubscribe(c, tiles)
  \/ ReplySmembers

SpecResubscribe == Init /\ [][ResubNext]_vars

\* --- sessions that subscribe to many tiles
MaxLimitMsgs == 4

\* the most tiles a session may hold: 1500 in the mobile client's viewport
\* logic, scaled down to the few tiles of the model
TileLimit == 2

TileZero == latLonToTileKey(0, 0, tileZoom)

LimitTileLists == { << TileA, TileB >>, << TileZero >>, << TileA, TileB, TileZero >> }

LimitNext ==
  \/ /\ nClientMsgs < MaxLimitMsgs
     /\ \E c \in Clients :
          \/ handleConnection(c)
          \/ \E tiles \in LimitTileLists : handleSubscribe(c, tiles)
          \/ \E tiles \in LimitTileLists : handleUnsubscribe(c, tiles)
  \/ ReplySmembers

SpecTileLimit == Init /\ [][LimitNext]_vars

\* --- the batch synchronizer over a store that reports fill (no record
\* expires: the reports that would refresh it are left out with the time)
MaxSyncReports == 3

SyncNext ==
  \/ /\ nReports < MaxSyncReports
     /\ \E msg \in StoreReports : handleMessage(msg)
  \/ ReplyEvalsha
  \/ syncStart
  \/ syncTick
  \/ ReplyScan
  \/ ReplySyncGet
  \/ PgUpsert

SpecSync == Init /\ [][SyncNext]_vars

\* the interval fires again and again, and Redis and PostgreSQL answer
SpecSyncLive ==
  /\ SpecSync
  /\ WF_vars(syncStart)
  /\ WF_vars(syncTick)
  /\ WF_vars(ReplyEvalsha)
  /\ WF_vars(ReplyScan)
  /\ WF_vars(ReplySyncGet)
  /\ WF_vars(PgUpsert)

\* --- the batch synchronizer when Redis and PostgreSQL fail at times
SyncFailNext ==
  \/ SyncNext
  \/ ReplySyncError
  \/ PgUpsertError

SpecSyncFail == Init /\ [][SyncFailNext]_vars

\* --- the server from its constructor to the end of its shutdown
MaxLifeMsgs == 2
MaxLifeSeconds == 1

InitBoot ==
  /\ vesselHash = [m \in MMSIs |-> EmptyHash]
  /\ vesselExp = [m \in MMSIs |-> 0]
  /\ tileSet = [t \in TileKeys |-> {}]
  /\ tileExp = [t \in TileKeys |-> 0]
  /\ redisQ = << >>
  /\ ingestDirty = << >>
  /\ clients = {}
  /\ subscribedTiles = [c \in Clients |-> {}]
  /\ isAlive = [c \in Clients |-> FALSE]
  /\ sock = [c \in Clients |-> "none"]
  /\ tileSubscriptions = << >>
  /\ wsDirty = << >>
  /\ wsRunning = FALSE
  /\ outbox = [c \in Clients |-> << >>]
  /\ tickNo = 0
  /\ touch = [t \in TileKeys |-> 0]
  /\ lastPut = [mmsi |-> 0, oldTile |-> NoTile, newTile |-> NoTile]
  /\ owed = [c \in Clients |-> [t \in TileKeys |-> NotOwed]]
  /\ due = [c \in Clients |-> {}]
  /\ age = [m \in MMSIs |-> VesselTtl]
  /\ dropped = [c \in Clients |-> -1]
  /\ upstream = NewClient
  /\ sync = NewSync
  /\ server = NewServer
  /\ nReports = 0
  /\ nClientMsgs = 0
  /\ nSeconds = 0
  /\ lost = {}
  /\ mobile = NewWebSocketService

LifecycleNext ==
  \/ initRedis
  \/ initPostgres
  \/ initAISStreamClient
  \/ startLoaded
  \/ UpstreamOpen
  \/ startBatchSync
  \/ ReplyScan
  \/ createServer
  \/ httpRequest
  \/ /\ server.listening
     /\ nClientMsgs < MaxLifeMsgs
     /\ \E c \in Clients : handleConnection(c)
  \/ /\ nClientMsgs < MaxLifeMsgs
     /\ \E c \in Clients : handleSubscribe(c, << TileA >>)
  \/ ReplySmembers
  \/ shutdown
  \/ /\ \/ server.pc = "running" /\ nSeconds < MaxLifeSeconds
        \/ server.pc = "grace" /\ nSeconds < server.signalAt + GraceSeconds
     /\ Second
  \/ stopWebSocketServer
  \/ stopAISStreamClient
  \/ stopBatchSync
  \/ closeRedis
  \/ closePostgres
  \/ closeHttpServer

SpecLifecycle == InitBoot /\ [][LifecycleNext]_vars

\* --- the server when its components fail, at boot and afterwards
FaultNext ==
  \/ LifecycleNext
  \/ initRedisFails
  \/ initPostgresFails
  \/ loadRedisScriptsFails
  \/ server.pc # "exited" /\ ReplySyncError
  \/ server.pc # "exited" /\ UpstreamError
  \/ server.pc # "exited" /\ UpstreamClose
  \/ server.pc # "exited" /\ ReconnectTimer

SpecFaults == InitBoot /\ [][FaultNext]_vars

\* --- sessions that unsubscribe while the store is being read
MaxUnsubReports == 1
MaxUnsubMsgs == 3
MaxUnsubTicks == 1

UnsubNext ==
  \/ /\ nReports < MaxUnsubReports
     /\ \E msg \in ListReports : handleMessage(msg)
  \/ ReplyEvalsha
  \/ ReplySmembers
  \/ ReplyHgetall
  \/ /\ tickNo < MaxUnsubTicks
     /\ WsFlushDirtyTiles
  \/ /\ nClientMsgs < MaxUnsubMsgs
     /\ \E c \in Clients :
          \/ handleConnection(c)
          \/ handleSubscribe(c, << TileA >>)
          \/ handleUnsubscribe(c, << TileA >>)

SpecUnsub == Init /\ [][UnsubNext]_vars

\* --- records that expire under subscribers
MaxExpiryReports == 1
MaxExpiryMsgs == 2
MaxExpiryTicks == 2
MaxExpirySeconds == 2

ExpiryNext ==
  \/ /\ nReports < MaxExpiryReports
     /\ \E msg \in ListReports : handleMessage(msg)
  \/ ReplyEvalsha
  \/ ReplySmembers
  \/ ReplyHgetall
  \/ IngestFlushDirtyTiles
  \/ /\ tickNo < MaxExpiryTicks
     /\ WsFlushDirtyTiles
  \/ /\ nClientMsgs < MaxExpiryMsgs
     /\ \/ handleConnection("c1")
        \/ handleSubscribe("c1", << TileA >>)
  \/ /\ nSeconds < MaxExpirySeconds
     /\ Second

SpecExpiry == Init /\ [][ExpiryNext]_vars

\* --- reports that carry their own time, in any order
MaxOrderReports == 3
MaxOrderSeconds == 2

\* position reports with a time_utc of their own
OrderReports ==
  { WireMessage(TRUE, Num(m), Num(p[1]), Num(p[2]), Num(45), Num(12), Num(50), Num(m), Num(p[1]), Num(p[2]), Num(ts)) :
      m \in MMSIs, p \in { <<2240, 11411>>, <<2241, 11420>> }, ts \in { 5, 9 } }

OrderNext ==
  \/ /\ nReports < MaxOrderReports
     /\ \E msg \in OrderReports : handleMessage(msg)
  \/ ReplyEvalsha
  \/ /\ nSeconds < MaxOrderSeconds
     /\ Second

SpecOrder == Init /\ [][OrderNext]_vars

\* --- a store that fails a read of the dispatcher
MaxFlushFailReports == 2
MaxFlushFailMsgs == 2
MaxFlushFailTicks == 2
MaxFlushFailures == 1

FlushFailNext ==
  \/ /\ nReports < MaxFlushFailReports
     /\ \E msg \in DispatchReports : handleMessage(msg)
  \/ ReplyEvalsha
  \/ ReplySmembers
  \/ ReplyHgetall
  \/ /\ Cardinality({ p[1] : p \in lost }) < MaxFlushFailures
     /\ ReplyFlushError
  \/ IngestFlushDirtyTiles
  \/ /\ tickNo < MaxFlushFailTicks
     /\ WsFlushDirtyTiles
  \/ /\ nClientMsgs < MaxFlushFailMsgs
     /\ \/ handleConnection("c1")
        \/ \E tiles \in TileLists : handleSubscribe("c1", tiles)

SpecFlushFail == Init /\ [][FlushFailNext]_vars

\* --- the mobile app's connection
MaxMobileAttempts == 2

\* the tiles the map asks for
MobileTileSets == { {TileA}, {TileB}, {TileA, TileB} }

MobileNext ==
  \/ MobileConnect
  \/ MobileOpen
  \/ MobileClose
  \/ /\ mobile.reconnectAttempts < MaxMobileAttempts
     /\ MobileTimer
  \/ \E tiles \in MobileTileSets : MobileSubscribe(tiles)
  \/ \E tiles \in MobileTileSets : MobileUnsubscribe(tiles)
  \/ MobileDisconnect

SpecMobile == Init /\ [][MobileNext]_vars

\* --- the connection to the provider

MaxUpstreamReports == 1

UpstreamNext ==
  \/ /\ nReports < MaxUpstreamReports
     /\ upstream.readyState = "OPEN"
     /\ \E msg \in ListReports : handleMessage(msg)
  \/ ReplyEvalsha
  \/ start
  \/ startLoaded
  \/ UpstreamOpen
  \/ UpstreamError
  \/ UpstreamClose
  \/ ReconnectTimer
  \/ stopClient

SpecUpstream == Init /\ [][UpstreamNext]_vars

\* Node fires a timer that is set, and a socket that reported an error or
\* was closed emits its close event
SpecUpstreamLive ==
  /\ SpecUpstream
  /\ WF_vars(ReconnectTimer)
  /\ WF_vars(UpstreamClose /\ upstream.readyState = "CLOSING")

-----------------------------------------------------------------------------
(* Claims about the store, under SpecStore *)

\* a vessel record is live while its key exists
Live(m) == vesselExp[m] > 0

\* C1: for every MMSI m and tile key T, m is in the tile set of T if and
\* only if a live vessel record of m exists and its tile field is T.
C1_TileSetIffLiveRecord ==
  \A m \in MMSIs : \A t \in TileKeys :
    (m \in tileSet[t]) <=> (Live(m) /\ vesselHash[m].tile = t)

\* C2: at every instant each MMSI is a member of at most one tile set.
C2_AtMostOneTile ==
  \A m \in MMSIs : Cardinality({ t \in TileKeys : m \in tileSet[t] }) <= 1

\* C3: once VESSEL_TTL seconds have passed since the last update of an MMSI
\* with no update in between, the MMSI has no vessel record and is a member
\* of no tile set.
C3_ExpiredEverywhere ==
  \A m \in MMSIs :
    age[m] >= VesselTtl =>
      /\ vesselHash[m] = EmptyHash
      /\ \A t \in TileKeys : m \notin tileSet[t]

\* C9: putVessel is one transition of the store.  In the step that runs the
\* script for the report at the head of the queue: the reply's oldTile is
\* the tile of the record stored before (none when there was no record) and
\* its newTile the report's tile; the record is replaced and its TTL
\* refreshed, no other record changes; the MMSI leaves the old tile's set
\* when the old tile is another tile, and that set is evicted when it
\* became empty; the MMSI joins the new tile's set, whose TTL is refreshed;
\* no other tile set changes; and only that one command is answered.
C9_PutVesselAtomic ==
  [][ touch' # touch =>
      LET rec  == Head(redisQ).vessel
          m    == rec.mmsi
          old  == IF Live(m) THEN vesselHash[m].tile ELSE NoTile
          move == old # NoTile /\ old # rec.tile
      IN  /\ Head(redisQ).op = "evalsha"
          /\ redisQ' = Tail(redisQ)
          /\ lastPut'.oldTile = old
          /\ lastPut'.newTile = rec.tile
          /\ vesselHash'[m].tile = rec.tile
          /\ vesselHash'[m].timestamp = Digits(rec.timestamp)
          /\ vesselHash'[m].mmsi = Digits(m)
          /\ vesselExp'[m] = VesselTtl
          /\ \A k \in MMSIs \ {m} :
                vesselHash'[k] = vesselHash[k] /\ vesselExp'[k] = vesselExp[k]
          /\ tileSet'[rec.tile] = tileSet[rec.tile] \cup {m}
          /\ tileExp'[rec.tile] = VesselTtl
          /\ move =>
                /\ tileSet'[old] = tileSet[old] \ {m}
                /\ (tileSet'[old] = {}) => (tileExp'[old] = 0)
                /\ (tileSet'[old] # {}) => (tileExp'[old] = tileExp[old])
          /\ \A t \in TileKeys \ {rec.tile, old} :
                tileSet'[t] = tileSet[t] /\ tileExp'[t] = tileExp[t]
    ]_vars

\* a report moved a vessel out of a tile that another vessel still is in
C9_Witness ==
  /\ lastPut.oldTile # NoTile
  /\ lastPut.oldTile # lastPut.newTile
  /\ tileSet[lastPut.oldTile] # {}
  /\ lastPut.mmsi \in tileSet[lastPut.newTile]

-----------------------------------------------------------------------------
(* Claims about the sessions, under SpecSessions *)

\* C4: for every registered session sid and tile key T, sid is in the tile
\* subscription index entry of T if and only if T is in the session's
\* subscribed set; and the index keeps no entry whose set is empty.
C4_IndexIsInverse ==
  /\ \A sid \in clients : \A t \in TileKeys :
        (t \in DOMAIN tileSubscriptions /\ sid \in tileSubscriptions[t])
          <=> (t \in subscribedTiles[sid])
  /\ \A t \in DOMAIN tileSubscriptions : tileSubscriptions[t] # {}

\* a session that had subscribed ended, its tile's entry is evicted, and
\* another session is still registered and subscribed
C4_Witness ==
  \E c \in clients : \E d \in Clients \ clients :
    /\ sock[d] \in {"closed", "terminated"}
    /\ subscribedTiles[c] # {}
    /\ \E t \in subscribedTiles[d] : t \notin DOMAIN tileSubscriptions

-----------------------------------------------------------------------------
(* Claims about the dispatcher, under SpecDispatch *)

\* the positions in a client's outbox of the updates a flush built for `t`
FlushUpdates(c, t) ==
  { i \in DOMAIN outbox[c] :
      /\ outbox[c][i].type = "vessel_update"
      /\ outbox[c][i].src = "flush"
      /\ outbox[c][i].tile = t }

\* the positions of the updates a snapshot built for `t`
SnapshotUpdates(c, t) ==
  { i \in DOMAIN outbox[c] :
      /\ outbox[c][i].type = "vessel_update"
      /\ outbox[c][i].src = "snapshot"
      /\ outbox[c][i].tile = t }

\* C5: the updates that landed on a tile between two dispatcher ticks give a
\* subscriber one vessel_update for the tile; no later tick sends a second
\* one for the same updates.  (Of two updates that flushes sent a subscriber
\* for a tile, the later flush started after a further script run on the
\* tile had been signalled.)
C5_OneUpdatePerBatch ==
  \A c \in Clients : \A t \in TileKeys :
    \A i, j \in FlushUpdates(c, t) :
      i # j => outbox[c][i].base # outbox[c][j].base

\* C6: for every (tile, subscriber) the updates of the flushes are delivered
\* in the order of the ticks, and none carries an older store state than one
\* delivered before it.
C6_TickOrder ==
  \A c \in Clients : \A t \in TileKeys :
    \A i, j \in FlushUpdates(c, t) :
      i < j => /\ outbox[c][i].tick <= outbox[c][j].tick
               /\ outbox[c][i].seen <= outbox[c][j].seen

\* C7: for every (tile, subscriber) the snapshot update of a subscribe is
\* delivered before any update a flush sends for the tile after the
\* subscribe's acknowledgement.
C7_SnapshotFirst ==
  \A c \in Clients : \A t \in TileKeys :
    \A j \in SnapshotUpdates(c, t) : \A a \in DOMAIN outbox[c] :
      ( /\ outbox[c][a].type = "subscribed"
        /\ outbox[c][a].tick = outbox[c][j].tick )
      => \A i \in FlushUpdates(c, t) : ~(a < i /\ i < j)

\* C8: the first vessel_update for T after the subscribed acknowledgement
\* lists every MMSI that was in T's tile set when the subscribe was
\* handled, except those whose record expired since.
C8_InitialBeforeLive ==
  \A c \in Clients : \A t \in TileKeys : owed[c][t].st # "missed"

\* the flush of tick k has run to its end
FlushDone(k) ==
  /\ tickNo >= k
  /\ \A i \in DOMAIN redisQ :
        redisQ[i].op # "evalsha" =>
          ~(redisQ[i].co.kind = "flush" /\ redisQ[i].co.tick = k)

\* the updates for the tile of `o` that the first tick after the write of
\* `o` sent to `c`
DueUpdates(c, o) ==
  { i \in FlushUpdates(c, o.tile) : outbox[c][i].tick = o.after + 1 }

UpdatesSinceWrite(c, t) ==
  { i \in FlushUpdates(c, t) : outbox[c][i].base = touch[t] }

\* C14: when the last write moved a vessel from tile T1 to another tile
\* T2, a subscriber has been sent at most one vessel_update for T1 and at
\* most one for T2 by the ticks after the move; the one for T1 does not
\* list the vessel and the one for T2 lists it.
C14_OneUpdatePerMove ==
  LET T1 == lastPut.oldTile
      T2 == lastPut.newTile
  IN  (T1 # NoTile /\ T1 # T2) =>
        \A c \in Clients :
          /\ Cardinality(UpdatesSinceWrite(c, T1)) <= 1
          /\ Cardinality(UpdatesSinceWrite(c, T2)) <= 1
          /\ \A i \in UpdatesSinceWrite(c, T1) :
                lastPut.mmsi \notin ListedMMSIs(outbox[c][i].vessels)
          /\ \A i \in UpdatesSinceWrite(c, T2) :
                lastPut.mmsi \in ListedMMSIs(outbox[c][i].vessels)

-----------------------------------------------------------------------------
(* Claims about the parsing, under SpecParse *)

\* C10: a report whose TrueHeading is 511 is stored with heading null (no
\* stored record holds the heading 511), and the record of a report at
\* (0, 0) has the tile 12/2048/2048.
C10_Heading511Null ==
  \A m \in MMSIs :
    Live(m) =>
      /\ vesselHash[m].heading # Digits(HeadingNA)
      /\ (vesselHash[m].lat = Digits(0) /\ vesselHash[m].lon = Digits(0))
           => vesselHash[m].tile = << 12, 2048, 2048 >>

\* the script runs for the EVALSHA at the head of the queue
ScriptRuns ==
  /\ redisQ # << >>
  /\ Head(redisQ).op = "evalsha"
  /\ redisQ' = Tail(redisQ)
  /\ touch' # touch

\* C26: when the script runs with a payload identical to the one it stored
\* last for the vessel (the record is live and holds every field of the
\* payload), the vessel records and the tile sets are afterwards as they
\* were, the run reports oldTile equal to newTile and removes the vessel
\* from no tile set; only the TTLs of the record and of its tile set are
\* set anew.
C26_PutTwiceSame ==
  [][ IF ScriptRuns
      THEN LET vessel == Head(redisQ).vessel
           IN  (vesselExp[vessel.mmsi] > 0 /\ vesselHash[vessel.mmsi] = ScriptArgs(vessel)) =>
                 /\ vesselHash' = vesselHash
                 /\ tileSet' = tileSet
                 /\ lastPut'.oldTile = vessel.tile
                 /\ lastPut'.newTile = vessel.tile
                 /\ vesselExp' = [vesselExp EXCEPT ![vessel.mmsi] = VesselTtl]
                 /\ tileExp' = [tileExp EXCEPT ![vessel.tile] = VesselTtl]
      ELSE TRUE
    ]_vars

\* the script ran twice for one vessel at one place within one second (the
\* two payloads are identical), and the second run reported its tile as
\* the old one
C26_Witness ==
  \E m \in MMSIs :
    /\ nSeconds = 0
    /\ lastPut = [mmsi |-> m, oldTile |-> TileA, newTile |-> TileA]
    /\ touch = [t \in TileKeys |-> IF t = TileA THEN 2 ELSE 0]
    /\ \A o \in MMSIs \ {m} : vesselExp[o] = 0

-----------------------------------------------------------------------------
(* Claims about the batch synchronizer, under SpecSyncLive and SpecSyncFail *)

\* C27: every vessel record that stays live is, after finitely many ticks,
\* in the upsert of some tick: its row is in vessels_current.
C27_EveryLiveRecordSynced ==
  \A m \in MMSIs : <>[](vesselExp[m] > 0) => <>(sync.rows[m] # NoTile)

\* C34: no run of syncVessels reads or upserts more than BATCH_SYNC_SIZE
\* records, whatever number of keys the calls of SCAN return.
C34_TickCappedByBatchSize ==
  /\ \A i \in DOMAIN redisQ : redisQ[i].op = "syncget" => Len(redisQ[i].keys) <= BatchSyncSize
  /\ \A i \in DOMAIN sync.upserts : Cardinality(DOMAIN sync.upserts[i].values) <= BatchSyncSize

\* the step in which a run of syncVessels ends in an error
SyncRunFails == sync'.failures = sync.failures + 1

\* C28: a run whose scan, store read or upsert fails is skipped: the step
\* in which it fails writes no row, leaves the service running, and leaves
\* the store, the sessions, the dirty sets, the messages sent and the
\* connection to the provider as they were; and once a run has failed the
\* service is still active (running, with its interval set), so that the
\* next tick starts a run with a scan of its own.
C28_FailedTickSkipped ==
  /\ [][SyncRunFails =>
          /\ sync'.rows = sync.rows
          /\ sync'.isRunning
          /\ sync'.syncInterval
          /\ Len(sync'.upserts) <= Len(sync.upserts)
          /\ \A i \in DOMAIN redisQ' : redisQ'[i] \in Elems(redisQ)
          /\ UNCHANGED << storeVars, sessionVars, ingestDirty, wsDirty, wsRunning, outbox, upstream >>]_vars
  /\ [](sync.failures > 0 => sync.isRunning /\ sync.syncInterval)
  /\ [][(sync.failures > 0 /\ redisQ' # redisQ /\ Len(redisQ') > Len(redisQ) /\ nReports' = nReports)
          => redisQ'[Len(redisQ')] = ScanCmd(FALSE, 0, << >>)]_vars

\* a run has failed and a later run has written its rows
C28_Witness ==
  /\ sync.failures > 0
  /\ sync.recovered
  /\ \E m \in MMSIs : sync.rows[m] # NoTile

-----------------------------------------------------------------------------
(* Claims about boot and shutdown, under SpecLifecycle *)

\* the place of a component in a sequence of components, 0 when absent
PlaceIn(seq, x) == IF x \in Elems(seq) THEN CHOOSE i \in DOMAIN seq : seq[i] = x ELSE 0

\* C29: shutdown stops the components in the reverse of the order in which
\* boot started them: of two components that were stopped, the one stopped
\* first was started last.
C29_StopsInReverseOfBoot ==
  \A i, j \in DOMAIN server.stopped :
    i < j => PlaceIn(server.started, server.stopped[i]) > PlaceIn(server.started, server.stopped[j])

\* the grace window: from the shutdown signal to the stopping of the components
InGraceWindow == server.isShuttingDown /\ server.pc = "grace"

\* C30: in the grace window every new downstream connection is refused: no
\* step of the window registers a client, and an HTTP request answered in
\* it is answered with 503.
C30_RefusedInGrace ==
  [][InGraceWindow =>
       /\ clients' \subseteq clients
       /\ server'.status # server.status => server'.status = 503]_vars

\* C31: the process ends with an error only for a failure of the
\* in-memory store or of the server itself: a failure of PostgreSQL, of the
\* AISStream client, of the batch sync or of the WebSocket server is logged
\* and the process keeps running.
C31_OnlyStoreFailureFatal ==
  server.exitCode = 1 => server.fatal \in { "redis", "server" }

-----------------------------------------------------------------------------
(* Claims about the ingest client's dirty tiles, under SpecStoreFail *)

\* the tiles the last script run returned
ReturnedTiles(put) == { put.newTile } \cup (IF put.oldTile # NoTile THEN { put.oldTile } ELSE {})

\* C32: a step in which the script ran adds to the client's dirty set the
\* tiles it returned and nothing else; any other step that changes the set
\* is a flush, which finds it non-empty, empties it and hands the
\* dispatcher every key it held and no other; no other step touches it.
C32_DirtyTilesFlushedOnce ==
  [][IF touch' # touch
     THEN Elems(ingestDirty') = Elems(ingestDirty) \cup ReturnedTiles(lastPut')
     ELSE IF ingestDirty' # ingestDirty
     THEN /\ ingestDirty # << >>
          /\ ingestDirty' = << >>
          /\ Elems(wsDirty') = Elems(wsDirty) \cup Elems(ingestDirty)
     ELSE TRUE]_vars

\* a vessel has moved from TileA to TileB and the set was flushed after it
C32_Witness ==
  /\ lastPut.oldTile = TileA
  /\ lastPut.newTile = TileB
  /\ ingestDirty = << >>
  /\ redisQ = << >>

-----------------------------------------------------------------------------
(* Claims about the dispatcher's dirty tiles, under SpecDispatch *)

\* the flushes of the dispatcher that are reading the store
FlushesInFlight == { i \in DOMAIN redisQ : redisQ[i].op \in { "smembers", "hgetall" } /\ redisQ[i].co.kind = "flush" }

\* the dirty tiles that have a subscriber
DirtySubscribed == { t \in Elems(wsDirty) : HasSubscribers(tileSubscriptions, t) }

\* C33: the tick of the dispatcher takes the whole dirty set and leaves an
\* empty one in the same step, and the flush it starts holds every taken
\* tile that has a subscriber; no other step takes a tile out of the set,
\* so that a tile signalled while a flush is reading stays in the set until
\* a later tick takes it.
C33_DirtySwapAtomic ==
  [][IF tickNo' # tickNo
     THEN /\ wsDirty' = << >>
          /\ IF DirtySubscribed = {} THEN redisQ' = redisQ
             ELSE /\ Len(redisQ') = Len(redisQ) + 1
                  /\ redisQ'[Len(redisQ')].op = "smembers"
                  /\ redisQ'[Len(redisQ')].co.kind = "flush"
                  /\ DirtySubscribed \subseteq Elems(redisQ'[Len(redisQ')].co.rest)
                  /\ Elems(redisQ'[Len(redisQ')].co.rest) \subseteq Elems(wsDirty)
     ELSE Elems(wsDirty) \subseteq Elems(wsDirty')]_vars

\* a tile was signalled while the first flush was reading, and the second
\* tick has taken it
C33_Witness ==
  /\ tickNo = 2
  /\ wsDirty = << >>
  /\ \E i, j \in FlushesInFlight : redisQ[i].co.tick = 1 /\ redisQ[j].co.tick = 2

-----------------------------------------------------------------------------
(* Claims about unsubscribing, under SpecUnsub *)

\* C35: a vessel_update is sent to a session only for a tile that is in
\* its subscribed set when the message is sent: also the snapshot of a
\* tile that was unsubscribed while it was being read is not sent.
C35_OnlySubscribedTilesSent ==
  [][\A c \in Clients :
       IF Len(outbox'[c]) > Len(outbox[c])
       THEN outbox'[c][Len(outbox'[c])].type = "vessel_update"
              => outbox'[c][Len(outbox'[c])].tile \in subscribedTiles'[c]
       ELSE TRUE]_vars

-----------------------------------------------------------------------------
(* Claims about expiry, under SpecExpiry *)

\* nothing is on its way to the subscribers of tile t: no write waits for
\* the store, t is in neither dirty set, and no flush that holds t is reading
NothingPending(t, q, ingest, ws) ==
  /\ t \notin Elems(ingest) \cup Elems(ws)
  /\ \A i \in DOMAIN q :
       /\ q[i].op # "evalsha"
       /\ (q[i].op \in { "smembers", "hgetall" } /\ q[i].co.kind = "flush") => t \notin Elems(q[i].co.rest)

\* the step sends a client a vessel_update of a flush for tile t
FlushUpdateSent(t) ==
  \E c \in Clients :
    /\ Len(outbox'[c]) > Len(outbox[c])
    /\ outbox'[c][Len(outbox'[c])].type = "vessel_update"
    /\ outbox'[c][Len(outbox'[c])].src = "flush"
    /\ outbox'[c][Len(outbox'[c])].tile = t

\* C36: the expiry of a record marks no tile dirty.  When nothing is on its
\* way to the subscribers of a tile, no step but the handling of a new
\* report changes that, the expiry of its records included, and no update
\* of a flush for the tile is sent.
C36_ExpiryMarksNothing ==
  [][\A t \in TileKeys :
       (NothingPending(t, redisQ, ingestDirty, wsDirty) /\ nReports' = nReports)
         => /\ NothingPending(t, redisQ', ingestDirty', wsDirty')
            /\ ~FlushUpdateSent(t)]_vars

\* the subscriber of TileA was sent the vessel by a flush, the record has
\* expired since, and nothing is on its way
C36_Witness ==
  /\ TileA \in subscribedTiles["c1"]
  /\ \E i \in DOMAIN outbox["c1"] :
       /\ outbox["c1"][i].type = "vessel_update"
       /\ outbox["c1"][i].src = "flush"
       /\ outbox["c1"][i].tile = TileA
       /\ i = Len(outbox["c1"])
       /\ DOMAIN outbox["c1"][i].vessels # {}
  /\ lastPut.newTile = TileA
  /\ \A m \in MMSIs : vesselExp[m] = 0
  /\ tileSet[TileA] = {}
  /\ NothingPending(TileA, redisQ, ingestDirty, wsDirty)

-----------------------------------------------------------------------------
(* Claims about the order of reports, under SpecOrder *)

\* C38: reports are applied in the order in which they arrive, whatever
\* their timestamps: an accepted report waits behind those that came before
\* it, the store runs the script for the oldest one that waits, and after
\* the run the record is that report's and the vessel is a member of that
\* report's tile and of no other.
C38_LastReceivedWins ==
  [][/\ nReports' # nReports =>
          \/ redisQ' = redisQ
          \/ /\ Len(redisQ') = Len(redisQ) + 1
             /\ SubSeq(redisQ', 1, Len(redisQ)) = redisQ
             /\ redisQ'[Len(redisQ')].op = "evalsha"
     /\ IF touch' # touch
        THEN /\ Head(redisQ).op = "evalsha"
             /\ redisQ' = Tail(redisQ)
             /\ vesselHash'[Head(redisQ).vessel.mmsi] = ScriptArgs(Head(redisQ).vessel)
             /\ \A t \in TileKeys :
                  Head(redisQ).vessel.mmsi \in tileSet'[t] <=> t = Head(redisQ).vessel.tile
        ELSE TRUE]_vars

-----------------------------------------------------------------------------
(* Claims about a failed read of the dispatcher, under SpecFlushFail *)

\* the flush of tick k has sent some client an update of tile t
FlushSent(box, k, t) ==
  \E c \in Clients : \E i \in DOMAIN box[c] :
    /\ box[c][i].type = "vessel_update"
    /\ box[c][i].src = "flush"
    /\ box[c][i].tick = k
    /\ box[c][i].tile = t

\* C39: when a read of the store fails in a flush, the tiles of that tick
\* from the failing one on are never dispatched by that tick, the failure
\* sends nothing and puts no tile back into the dirty set, and the
\* dispatcher stays running; a tile left undone is dispatched by a later
\* tick only.
C39_FailedFlushDropsTiles ==
  /\ [](\A p \in lost : ~FlushSent(outbox, p[1], p[2]))
  /\ [][lost' # lost =>
          /\ wsDirty' = wsDirty
          /\ outbox' = outbox
          /\ wsRunning' /\ wsRunning
          /\ \A i \in DOMAIN redisQ' :
               redisQ'[i].op \in { "smembers", "hgetall" } /\ redisQ'[i].co.kind = "flush"
                 => \A p \in lost' \ lost : redisQ'[i].co.tick # p[1]]_vars

\* a tile left undone by the failed flush of one tick is dispatched by the
\* next tick, after a new report has marked it dirty again
C39_Witness ==
  \E p \in lost :
    /\ ~FlushSent(outbox, p[1], p[2])
    /\ FlushSent(outbox, p[1] + 1, p[2])

-----------------------------------------------------------------------------
(* Claims about the mobile app's connection, under SpecMobile *)

\* C40: whenever the mobile service holds an open socket, the tiles it
\* believes subscribed are the tiles of the server's session for that
\* socket, after a reconnect by the timer and after a direct connect()
\* alike; and after a disconnect() no reconnect timer is pending.
C40_ResubscribedOnReconnect ==
  /\ mobile.ws = "OPEN" => mobile.session = mobile.subscribedTiles
  /\ mobile.isIntentionalDisconnect => ~mobile.reconnectTimeout

-----------------------------------------------------------------------------
(* Claims about dropped messages, under SpecInvalid *)

\* C21: the handling of a message that has no PositionReport, no MMSI, a
\* latitude or longitude in neither place, coordinates out of range, or
\* that does not parse, sends no EVALSHA to the store and changes neither
\* the store, nor a dirty set, nor what was sent to a client; the client's
\* connection is as before, so that later messages are handled.
C21_InvalidDropped ==
  [][ \A msg \in InvalidReports :
        handleMessage(msg) =>
          /\ redisQ' = redisQ
          /\ UNCHANGED << vesselHash, vesselExp, tileSet, tileExp, sync >>
          /\ UNCHANGED << ingestDirty, wsDirty, outbox, upstream, sync >>
    ]_vars

\* three messages were handled and nothing is left to answer, and the
\* script ran once: two messages were dropped, one was stored
C21_Witness ==
  /\ nReports = 3
  /\ redisQ = << >>
  /\ touch[TileA] = 1
  /\ \E m \in MMSIs : vesselExp[m] > 0

-----------------------------------------------------------------------------
(* Claims about failed store updates, under SpecStoreFail *)

\* an EVALSHA leaves the queue and the script did not run
StoreUpdateFails ==
  /\ redisQ # << >>
  /\ Head(redisQ).op = "evalsha"
  /\ redisQ' = Tail(redisQ)
  /\ touch' = touch

\* C22: when the store update of an accepted position fails, no tile is
\* added to the ingest client's dirty set, no vessel update reaches the
\* dispatcher (its dirty set stays), nothing is sent, and the client's
\* connection stays open; every accepted position handled, before or after
\* a failure, sends its update to the store.
C22_FailureAbsorbed ==
  /\ [][ StoreUpdateFails =>
           /\ ingestDirty' = ingestDirty
           /\ wsDirty' = wsDirty
           /\ outbox' = outbox
           /\ upstream' = upstream
           /\ upstream.readyState = "OPEN"
       ]_vars
  /\ [][ (nReports' = nReports + 1) => Len(redisQ') = Len(redisQ) + 1 ]_vars

\* three positions were accepted, the store answered all of them, and the
\* script ran once for one vessel: updates failed and another was stored
C22_Witness ==
  /\ nReports = 3
  /\ redisQ = << >>
  /\ \E m \in MMSIs : \E t \in { TileA, TileB } :
       /\ vesselExp[m] > 0
       /\ touch[t] = 1
       /\ \A u \in TileKeys \ {t} : touch[u] = 0
       /\ ingestDirty \o wsDirty # << >>

-----------------------------------------------------------------------------
(* Claims about the snapshot of a subscribe, under SpecSnapshot *)

\* the places in the outbox of `c` of the snapshot updates for tile `t` that
\* the subscribe numbered `n` caused
SnapshotsOf(c, n, t) ==
  { i \in DOMAIN outbox[c] :
      /\ outbox[c][i].type = "vessel_update"
      /\ outbox[c][i].src = "snapshot"
      /\ outbox[c][i].tick = n
      /\ outbox[c][i].tile = t }

\* the places of the subscribed acks numbered `n`
SubscribedAcks(c, n) ==
  { i \in DOMAIN outbox[c] : outbox[c][i].type = "subscribed" /\ outbox[c][i].tick = n }

\* how often `t` is in the list
Occurrences(tiles, t) == Cardinality({ i \in DOMAIN tiles : tiles[i] = t })

\* the store answers the command of a snapshot at the head of the queue
\* (no message was handled, so the queue changed by an answer)
SnapshotReply ==
  /\ redisQ # << >>
  /\ Head(redisQ).op # "evalsha"
  /\ Head(redisQ).co.kind = "snapshot"
  /\ redisQ' # redisQ
  /\ nClientMsgs' = nClientMsgs
  /\ nReports' = nReports

\* the snapshot updates that a subscribe caused are in the outbox of the
\* session that has its ack, after the ack
SnapshotsFollowAck ==
  \A c \in Clients : \A n \in 1 .. nClientMsgs : \A t \in TileKeys :
    \A i \in SnapshotsOf(c, n, t) : \E a \in SubscribedAcks(c, n) : a < i

\* a subscribe sends one subscribed ack to its session and nothing to
\* another; the answer that a tile set is empty sends nothing
AckAndEmptyTiles ==
  [][ /\ (nClientMsgs' = nClientMsgs + 1) =>
           \E c \in Clients :
             /\ Len(outbox'[c]) <= Len(outbox[c]) + 1
             /\ \A d \in Clients \ {c} : outbox'[d] = outbox[d]
      /\ IF SnapshotReply /\ Head(redisQ).op = "smembers"
         THEN tileSet[Head(Head(redisQ).co.rest)] = {} => outbox' = outbox
         ELSE TRUE
    ]_vars

-----------------------------------------------------------------------------
(* Claims about repeated subscribes, under SpecResubscribe *)

\* the step sends `c` the ack of a subscribe to tiles that it all holds
ResubscribeAcked(c) ==
  /\ c \in clients
  /\ Len(outbox'[c]) = Len(outbox[c]) + 1
  /\ outbox'[c][Len(outbox'[c])].type = "subscribed"
  /\ Elems(outbox'[c][Len(outbox'[c])].tiles) \subseteq subscribedTiles[c]

\* C24 (as stated): the subscribe of a registered session to tiles it is
\* subscribed to is a no-op: it changes neither the subscribed sets nor the
\* index, and has no further effect: nothing is sent, nothing is read.
C24_ResubscribeNoOp ==
  [][ \A c \in clients : \A tiles \in TileLists :
        (Elems(tiles) \subseteq subscribedTiles[c] /\ handleSubscribe(c, tiles)) =>
          UNCHANGED << subscribedTiles, tileSubscriptions, outbox, redisQ, sync >>
    ]_vars

\* C24 (amended): the subscribe of a registered session to tiles it is
\* subscribed to changes neither the subscribed sets, nor the index, nor
\* the registered sessions and their liveness; the session is sent the
\* ack again, and the snapshot of the listed tiles is read again.
C24_ResubscribeKeepsSets ==
  [][ \A c \in Clients :
        ResubscribeAcked(c) =>
          /\ UNCHANGED << subscribedTiles, tileSubscriptions, clients, isAlive, sock, sync >>
          /\ \A d \in Clients \ {c} : outbox'[d] = outbox[d]
          /\ Len(redisQ') = Len(redisQ) + 1
          /\ redisQ'[Len(redisQ')].op = "smembers"
          /\ redisQ'[Len(redisQ')].co.kind = "snapshot"
          /\ redisQ'[Len(redisQ')].co.client = c
          /\ redisQ'[Len(redisQ')].co.rest = outbox'[c][Len(outbox'[c])].tiles
    ]_vars

\* a session holds two acks of subscribes to the same tile, which another
\* session holds too
C24_Witness ==
  \E c \in clients : \E d \in clients \ {c} :
    /\ tileSubscriptions = (TileA :> {c, d})
    /\ \E i, j \in DOMAIN outbox[c] :
         /\ i < j
         /\ outbox[c][i].type = "subscribed"
         /\ outbox[c][j].type = "subscribed"
         /\ outbox[c][i].tiles = << TileA >>
         /\ outbox[c][j].tiles = << TileA >>

-----------------------------------------------------------------------------
(* Claims about the number of tiles of a session, under SpecTileLimit *)

\* C25: no session holds more subscribed tiles than the limit, whatever
\* subscribe messages its client sends, in one message or in several.
C25_TileLimitKept ==
  \A c \in Clients :
    /\ Cardinality(subscribedTiles[c]) <= TileLimit
    /\ Cardinality(IndexOf(tileSubscriptions, c)) <= TileLimit

-----------------------------------------------------------------------------
(* Claims about the vessel lists, under SpecLists *)

\* C11: the vessel list of every vessel_update, of a snapshot or of a
\* flush, holds an entry only for an MMSI whose record existed when it was
\* read: every entry carries the MMSI it was read for, never empty or
\* undefined fields.
C11_NoEntryForMissing ==
  \A c \in Clients : \A i \in DOMAIN outbox[c] :
    outbox[c][i].type = "vessel_update" =>
      \A k \in DOMAIN outbox[c][i].vessels :
        outbox[c][i].vessels[k].mmsi = Num(k)

\* C16: in a heartbeat tick (a step that pings or terminates a session),
\* every registered session that has not answered its last ping (isAlive
\* still false) is terminated and removed with all its tile subscriptions,
\* and every other registered session (it answered, or was accepted since)
\* is kept, with its subscriptions, and pinged again; no step terminates a
\* session that answered.
C16_HeartbeatTick ==
  [][ (\E c \in Clients : \/ isAlive[c] /\ ~isAlive'[c]
                          \/ sock[c] # "terminated" /\ sock'[c] = "terminated")
      => \A c \in clients :
           /\ ~isAlive[c] => /\ sock'[c] = "terminated"
                              /\ c \notin clients'
                              /\ IndexOf(tileSubscriptions', c) = {}
           /\ isAlive[c] => /\ sock'[c] = sock[c]
                             /\ c \in clients'
                             /\ IndexOf(tileSubscriptions', c)
                                  = IndexOf(tileSubscriptions, c)
                             /\ ~isAlive'[c]
    ]_vars

\* a heartbeat tick terminated a silent session that had subscribed and
\* pinged another one
C16_Witness ==
  \E c \in clients : \E d \in Clients \ clients :
    /\ sock[d] = "terminated"
    /\ subscribedTiles[d] # {}
    /\ sock[c] = "open"
    /\ ~isAlive[c]

\* C17 (as stated): once a heartbeat tick has passed since a subscriber
\* went silent, no entry of the tile subscription index contains it.
C17_GoneWithinOneTick ==
  \A c \in Clients : dropped[c] >= 1 => IndexOf(tileSubscriptions, c) = {}

\* C17 (amended): no entry of the index contains a session after its close
\* event, nor after the second heartbeat tick since its peer went silent.
C17_GoneWithinTwoTicks ==
  \A c \in Clients :
    (sock[c] = "closed" \/ dropped[c] >= 2) => IndexOf(tileSubscriptions, c) = {}

\* a subscriber went silent, two heartbeat ticks passed, and no close event
\* was seen for it
C17_Witness ==
  \E c \in Clients :
    /\ dropped[c] >= 2
    /\ subscribedTiles[c] # {}
    /\ sock[c] = "terminated"

-----------------------------------------------------------------------------
(* Claims about the connection to the provider, under SpecUpstream *)

RECURSIVE Pow(_, _)
Pow(b, k) == IF k = 0 THEN 1 ELSE b * Pow(b, k - 1)

\* min(1000 * 1.5^k, 30000) ms, in delay units; the division comes first
\* to keep the product small
BackoffAfter(k) ==
  Min((reconnectDelay \div Pow(reconnectBackoffDen, k)) * Pow(reconnectBackoffNum, k), maxReconnectDelay)

\* the division of BackoffAfter(k) is exact, or its result is over the maximum
BackoffExact(k) ==
  \/ reconnectDelay % Pow(reconnectBackoffDen, k) = 0
  \/ (reconnectDelay \div Pow(reconnectBackoffDen, k)) * Pow(reconnectBackoffNum, k) > maxReconnectDelay

\* C18: while the client is not stopped, after k closes of the provider's
\* socket with no open in between (k = 0 after an open and at the start)
\* the delay of the next reconnect to be scheduled is min(1000 * 1.5^k,
\* 30000) ms; so the timer set at the k-th of these closes waits min(1000 *
\* 1.5^(k-1), 30000) ms: 1 s, 1.5 s, 2.25 s, ..., never above 30 s, and
\* 1 s again at the first close after an open.
C18_BackoffDelay ==
  ~upstream.isClosing =>
    /\ BackoffExact(upstream.fails)
    /\ upstream.currentReconnectDelay = BackoffAfter(upstream.fails)
    /\ upstream.currentReconnectDelay <= maxReconnectDelay
    /\ upstream.readyState = "OPEN" => upstream.currentReconnectDelay = reconnectDelay
    /\ upstream.reconnectTimeout =>
         /\ upstream.fails >= 1
         /\ upstream.timerDelay = BackoffAfter(upstream.fails - 1)

\* the delay has reached its maximum, after a timer that was still under it
C18_Witness ==
  /\ ~upstream.isClosing
  /\ upstream.reconnectTimeout
  /\ upstream.fails >= 9
  /\ upstream.timerDelay < maxReconnectDelay
  /\ upstream.timerDelay > 25000 * DelayUnit
  /\ upstream.currentReconnectDelay = maxReconnectDelay

\* C19: once stop() was called the client stays stopped, no step creates a
\* socket or opens one, and no reconnect timer is pending: stop() cancels
\* the pending one, and a close event handled later sets none.
C19_NoConnectAfterStop ==
  /\ [](upstream.isClosing => ~upstream.reconnectTimeout)
  /\ [][ upstream.isClosing =>
           /\ upstream'.isClosing
           /\ upstream'.readyState = "CONNECTING" => upstream.readyState = "CONNECTING"
           /\ upstream'.readyState = "OPEN" => upstream.readyState = "OPEN"
           /\ ~upstream'.ws
        ]_vars

\* a close event was handled after stop(): the close is counted and the
\* delay was not raised for it
C19_Witness ==
  /\ upstream.isClosing
  /\ upstream.phase = "running"
  /\ upstream.readyState = "CLOSED"
  /\ upstream.fails = 1
  /\ upstream.currentReconnectDelay = reconnectDelay

\* C37: at any time at most one reconnect timer is pending and at most one
\* socket to the provider is connecting or open.
C37_OneTimerOneSocket ==
  /\ upstream.timers <= 1
  /\ upstream.live <= 1

\* the client connects for the third time, after two closes
C37_Witness ==
  /\ upstream.fails = 2
  /\ upstream.live = 1
  /\ upstream.timers = 0
  /\ upstream.readyState = "CONNECTING"

-----------------------------------------------------------------------------
(* Claims about the connection to the provider, under SpecUpstreamLive *)

\* the state of the client: its socket is connecting, or open with the
\* subscription sent, or it has no socket that works
ClientState(u) ==
  IF u.ws /\ u.readyState = "CONNECTING" THEN "CONNECTING"
  ELSE IF u.ws /\ u.readyState = "OPEN" THEN "SUBSCRIBED"
  ELSE "DISCONNECTED"

\* C20: the client's state changes only along DISCONNECTED -> CONNECTING ->
\* SUBSCRIBED -> DISCONNECTED (or from CONNECTING back to DISCONNECTED when
\* the attempt fails); a close event handled while the client is not
\* stopping leaves it DISCONNECTED with a reconnect timer set; and a
\* started client that is DISCONNECTED, after an error or a close, is
\* eventually CONNECTING again unless it is stopped.
C20_Lifecycle ==
  /\ [][ ClientState(upstream') # ClientState(upstream) =>
           << ClientState(upstream), ClientState(upstream') >> \in
             { << "DISCONNECTED", "CONNECTING" >>, << "CONNECTING", "SUBSCRIBED" >>,
               << "SUBSCRIBED", "DISCONNECTED" >>, << "CONNECTING", "DISCONNECTED" >> }
       ]_vars
  /\ [][ (upstream.readyState # "CLOSED" /\ upstream'.readyState = "CLOSED" /\ ~upstream.isClosing) =>
           /\ upstream'.reconnectTimeout
           /\ ClientState(upstream') = "DISCONNECTED"
       ]_vars
  /\ (upstream.phase = "running" /\ ClientState(upstream) = "DISCONNECTED" /\ ~upstream.isClosing)
       ~> (ClientState(upstream) = "CONNECTING" \/ upstream.isClosing)

\* the client is connecting again after two failures in a row
C20_Witness ==
  /\ ~upstream.isClosing
  /\ upstream.fails = 2
  /\ ClientState(upstream) = "CONNECTING"

-----------------------------------------------------------------------------
(* Claims about sessions that end, under SpecEndings *)

\* the session has ended: its socket closed, was terminated by the
\* heartbeat, or was closed by stop()
Ended(d) == sock[d] \in {"closed", "terminated", "closing"}

\* C12: a session that ended (close event, heartbeat termination or server
\* stop) is not registered and is in no entry of the tile subscription
\* index, and nothing is sent to it afterwards.
C12_EndedSessionGone ==
  /\ [](\A d \in Clients :
          Ended(d) => /\ d \notin clients
                      /\ \A t \in DOMAIN tileSubscriptions :
                            d \notin tileSubscriptions[t])
  /\ [][\A d \in Clients : Ended(d) => outbox'[d] = outbox[d]]_vars

=============================================================================
